---- MODULE Spec2Model ----
(***************************************************************************)
(* Model of the wt-dev plugin: the hash-based port allocator               *)
(* (dev-server/port-manager.ts), the singleton Inngest server manager      *)
(* (inngest/manager.js with shared/file-utils.js) and the port terminator  *)
(* (shared/process-utils.ts).                                              *)
(***************************************************************************)
EXTENDS Integers, Sequences, FiniteSets, TLC

(***************************************************************************)
(* Bounds of the model.                                                    *)
(***************************************************************************)
\* longest worktree list that is resolved
MaxWorktrees == 3
\* largest port pool
MaxPorts == 3

(***************************************************************************)
(* Program constants.                                                      *)
(***************************************************************************)
DEFAULT_BASE_PORT == 5001
\* maxAttempts = ports.length * 10
ATTEMPTS_PER_PORT == 10

\* waitForServerHealth probes at most this many times
HEALTH_CHECK_MAX_ATTEMPTS == 20
\* readPidFile's null: no PID file, or no valid PID in it
NoPid == 0
\* no lock file
NoLock == 0

\* concurrent ensureInngestServer invocations (one CLI process each)
NumInvokers == 2
\* processes that exist while killProcessesOnPort runs
NumProcs == 2
\* most sockets open at once
MaxSockets == 2
\* longest worktree list a project's port is looked up in
MaxAssignList == 2
MaxCfgPorts == 2
\* process.env.PORT is not set
NoEnvPort == 0
\* the range of a valid PORT override
MIN_PORT == 1
MAX_PORT == 65535

\* killProcessesOnPort
MAX_KILL_ATTEMPTS == 5
MAX_PORT_CHECK_RETRIES == 10
\* waitForPortRelease(port, targetPids, 3) inside the kill loop
LOOP_PORT_CHECK_RETRIES == 3

VARIABLES
    \* port allocator
    ports,        \* the configured pool (cfg.devServer.ports)
    worktrees,    \* the worktree list in creation order (git worktree list)
    result,       \* outcome of resolveAllPorts(worktrees, ports)
    lastOp,       \* what produced the current worktree list
    \* singleton service manager
    pc,           \* where each ensureInngestServer invocation stands
    existingPid,  \* each invocation's existingPid (readPidFile result)
    inngest,      \* each invocation's child process handle: its pid, or NoPid
    attempts,     \* each invocation's loop counter i in waitForServerHealth
    trail,        \* what each invocation has done so far (for the properties)
    pidFile,      \* content of PID_FILE, NoPid when the file does not exist
    lockFile,     \* content of LOCK_FILE (the owner), NoLock when it does not exist
    procs,        \* the live shared-service processes (pids)
    listener,     \* the process listening on inngestPort, or NoPid
    spawned,      \* number of shared-service processes spawned so far
    \* process terminator
    kpc,          \* where the killProcessesOnPort call stands
    kAttempt,     \* its attempt counter
    targetPids,   \* its targetPids set
    pids,         \* the PIDs its current for-loop has still to signal
    retry,        \* loop counter i of the running waitForPortRelease
    killResult,   \* "none" while running, then "true", "false" or "threw"
    alive,        \* live processes
    listening,    \* processes listening on the port
    connected,    \* processes holding an established connection to the port
    foreign,      \* processes this user may not signal (kill fails with EPERM)
    signalled,    \* processes a SIGKILL was delivered to
    rebound,      \* non-target processes that bound the port during the call
    \* port inspection
    sockets,      \* the TCP sockets of the machine
    tools,        \* the platform and what its inspection tools can do
    queried,      \* the port of the last findProcessesOnPort call, 0 before it
    foundPids,    \* what that call returned
    \* port lookup of one project
    envPort,      \* process.env.PORT as a number, NoEnvPort when it is not set
    projectRoot,  \* the worktrees whose directory contains the project path
    firstCall,    \* outcome of the first getHashBasedPort call, NoCall before it
    secondCall,   \* outcome of the second call
    \* service manager commands
    mcmd,         \* the command that runs: status, ensure, start, stop, restart
    mpc,          \* where the command stands
    status,       \* what getInngestStatus returned
    pidFromFile,  \* the PID the command read from the PID file
    orphanedPids, \* stopInngestServer: the PIDs its for-loop has still to visit
    killCalls,    \* the process.kill(pid, 'SIGKILL') calls made, in order
    sockCount,    \* listening sockets the listener has on the port (IPv4, IPv6)
    unkillable,   \* processes whose kill fails with EPERM
    mlog,         \* what the command has done so far (for the properties)
    \* configuration
    build,        \* which loadConfig the installed build has
    packageJson,  \* what package.json of the project root holds
    config,       \* what loadConfig returned, NoConfig before the call
    \* port choice of the workspace script
    portEnv,      \* process.env.PORT as text, empty when it is not set
    portFile,     \* text of the .dev-port file, empty when it does not exist
    rootHash,     \* parseInt(md5(projectRoot).substring(0, 8), 16)
    devPort,      \* what getAvailableDevPort did, if it was the last call of the
                  \* script, NoDevPort otherwise
    wtConfig,     \* what getWorktreeConfig of the script returned, if it was the
                  \* last call, NoDevPort otherwise
    \* writes to the singleton files
    files,        \* text of the two PID files and of the port file
    tempFile,     \* text of the writer's temporary file
    fw,           \* the write in progress: writer, target, text, position
    prevText,     \* text of the target when the write began
    seen,         \* what a reader of the target read during the write
    \* dev-server command
    dflag,        \* how the dev command was called: start, force or stop
    poolState,    \* what getWorktreeConfig does: returns, or throws
    dpc,          \* where the command stands
    dlog,         \* what the command has done so far (for the properties)
    exitCode,     \* the exit code of the process, NoExit while it runs
    \* worktree list cache
    worktreeCache, \* the module variable of git-utils: NoCache stands for null
    now,          \* Date.now(), in milliseconds
    gitWorktrees, \* how many worktrees the repository has
    history,      \* per directory, when a list was last cached since the cache
                  \* was cleared, and which directory came last
    wtCall        \* what the last listWorktrees call did, NoWtCall before

portVars == <<ports, worktrees, result, lastOp>>
ensureVars == <<pc, existingPid, inngest, attempts, trail, pidFile, lockFile,
                procs, listener, spawned>>
killVars == <<kpc, kAttempt, targetPids, pids, retry, killResult, alive, listening,
              connected, foreign, signalled, rebound>>
detectVars == <<sockets, tools, queried, foundPids>>
assignVars == <<envPort, projectRoot, firstCall, secondCall>>
manageVars == <<mcmd, mpc, status, pidFromFile, orphanedPids, killCalls, sockCount,
                unkillable, mlog>>
configVars == <<build, packageJson, config>>
scriptVars == <<portEnv, portFile, rootHash, devPort, wtConfig>>
fileVars == <<files, tempFile, fw, prevText, seen>>
devVars == <<dflag, poolState, dpc, dlog, exitCode>>
cacheVars == <<worktreeCache, now, gitWorktrees, history, wtCall>>
vars == <<portVars, ensureVars, killVars, detectVars, assignVars, manageVars,
          configVars, scriptVars, fileVars, devVars, cacheVars>>
\* what the steps of one part leave alone
besidesPorts == <<ensureVars, killVars, detectVars, assignVars, manageVars,
    configVars, scriptVars, fileVars, devVars, cacheVars>>
besidesEnsure == <<portVars, killVars, detectVars, assignVars, manageVars,
    configVars, scriptVars, fileVars, devVars, cacheVars>>
besidesKill == <<portVars, ensureVars, detectVars, assignVars, manageVars,
    configVars, scriptVars, fileVars, devVars, cacheVars>>
besidesDetect == <<portVars, ensureVars, killVars, assignVars, manageVars,
    configVars, scriptVars, fileVars, devVars, cacheVars>>
besidesAssign == <<portVars, ensureVars, killVars, detectVars, manageVars,
    configVars, scriptVars, fileVars, devVars, cacheVars>>
besidesManage == <<portVars, killVars, detectVars, assignVars,
    configVars, scriptVars, fileVars, devVars, cacheVars>>
besidesConfig == <<portVars, ensureVars, killVars, detectVars, assignVars,
    manageVars, scriptVars, fileVars, devVars, cacheVars>>
besidesScript == <<portVars, ensureVars, killVars, detectVars, assignVars,
    manageVars, configVars, fileVars, devVars, cacheVars>>
besidesFiles == <<portVars, ensureVars, killVars, detectVars, assignVars,
    manageVars, configVars, scriptVars, devVars, cacheVars>>
besidesDev == <<portVars, ensureVars, detectVars, assignVars, manageVars,
    configVars, scriptVars, fileVars, cacheVars>>
besidesCache == <<portVars, ensureVars, killVars, detectVars, assignVars,
    manageVars, configVars, scriptVars, fileVars, devVars>>

(***************************************************************************)
(* Port allocator.                                                         *)
(*                                                                         *)
(* A worktree path is represented by the numbers MD5 yields for it: the    *)
(* first 32 bits of md5(path) (primary) and of md5(path + ":" + attempt)   *)
(* for the retries (rest); the retries of one path share one number.       *)
(***************************************************************************)
\* the hash numbers the modelled paths have (taken modulo the pool size)
HashNums == {0, 1, 2}
Paths == [primary : HashNums, rest : HashNums]

\* parseInt(md5(worktreePath).substring(0, 8), 16) and its ":attempt" variant
Md5Num(worktreePath, attempt) ==
    IF attempt = 0 THEN worktreePath.primary ELSE worktreePath.rest

\* Array.from({length: n}, (_, i) => basePort + i)
generatePortPool(basePort, n) == [i \in 1 .. n |-> basePort + (i - 1)]

computeHashPort(worktreePath, pool) ==
    pool[(Md5Num(worktreePath, 0) % Len(pool)) + 1]

computeSecondaryHashPort(worktreePath, pool, attempt) ==
    pool[(Md5Num(worktreePath, attempt) % Len(pool)) + 1]

maxAttempts(pool) == Len(pool) * ATTEMPTS_PER_PORT

\* a candidate order that tries the secondary hash before the primary one
candidatePortSecondaryFirst(wt, pool, attempt) ==
    IF attempt = 0 THEN computeSecondaryHashPort(wt, pool, 1)
    ELSE computeHashPort(wt, pool)

candidatePort(wt, pool, attempt) ==
    IF attempt = 0 THEN computeHashPort(wt, pool)
    ELSE computeSecondaryHashPort(wt, pool, attempt)

\* a search that takes the primary candidate without looking at the ports
\* already given out
FindPortIgnoringUsed(wt, pool, usedPorts, attempt) ==
    IF attempt >= maxAttempts(pool) THEN {}
    ELSE {candidatePort(wt, pool, attempt)}

\* the inner for-loop: the set holding the first unclaimed candidate, or {}
RECURSIVE FindPort(_, _, _, _)
FindPort(wt, pool, usedPorts, attempt) ==
    IF attempt >= maxAttempts(pool) THEN {}
    ELSE IF candidatePort(wt, pool, attempt) \notin usedPorts
         THEN {candidatePort(wt, pool, attempt)}
         ELSE FindPort(wt, pool, usedPorts, attempt + 1)

PortExhaustedError(worktreeCount, portCount) ==
    [kind |-> "PortExhaustedError", worktreeCount |-> worktreeCount,
     portCount |-> portCount]

MapSet(m, k, v) == [x \in (DOMAIN m) \cup {k} |-> IF x = k THEN v ELSE m[x]]
EmptyMap == [x \in {} |-> 0]

\* a resolution that on exhaustion falls back to the first port of the pool
RECURSIVE ResolveFromReusing(_, _, _, _, _)
ResolveFromReusing(wts, pool, i, assignments, usedPorts) ==
    IF i > Len(wts) THEN [kind |-> "Map", assignments |-> assignments]
    ELSE LET found == FindPort(wts[i], pool, usedPorts, 0)
             p == IF found = {} THEN pool[1] ELSE CHOOSE x \in found : TRUE
         IN  ResolveFromReusing(wts, pool, i + 1, MapSet(assignments, wts[i], p),
                                usedPorts \cup {p})

\* the outer for-loop over the worktrees, from index i on
RECURSIVE ResolveFrom(_, _, _, _, _)
ResolveFrom(wts, pool, i, assignments, usedPorts) ==
    IF i > Len(wts) THEN [kind |-> "Map", assignments |-> assignments]
    ELSE LET found == FindPort(wts[i], pool, usedPorts, 0)
         IN  IF found = {}
             THEN PortExhaustedError(Len(wts), Len(pool))
             ELSE LET p == CHOOSE x \in found : TRUE
                  IN  ResolveFrom(wts, pool, i + 1, MapSet(assignments, wts[i], p),
                                  usedPorts \cup {p})

Reverse(s) == [i \in 1 .. Len(s) |-> s[Len(s) + 1 - i]]
\* a resolution that gives the most recently created worktree the first pick
resolveAllPortsNewestFirst(wts, pool) == ResolveFrom(Reverse(wts), pool, 1, EmptyMap, {})

resolveAllPorts(wts, pool) == ResolveFrom(wts, pool, 1, EmptyMap, {})

Range(s) == {s[i] : i \in DOMAIN s}
RemoveAt(s, k) == [i \in 1 .. (Len(s) - 1) |-> IF i < k THEN s[i] ELSE s[i + 1]]

(***************************************************************************)
(* Singleton service manager: state before any invocation has run.         *)
(***************************************************************************)
Invokers == 1 .. NumInvokers

NoTrail == [sawLive |-> FALSE, lockTried |-> FALSE, acquired |-> "no",
            pidTouched |-> FALSE, threw |-> FALSE, errorEvent |-> FALSE,
            healthy |-> FALSE, portBusy |-> FALSE, pidWritten |-> FALSE,
            lockTries |-> 0, recheckHealthy |-> FALSE]

\* no shared-service process, no PID file, no lock file
EnsureAtRest ==
    /\ pc = [i \in Invokers |-> "ReadPid"]
    /\ existingPid = [i \in Invokers |-> NoPid]
    /\ inngest = [i \in Invokers |-> NoPid]
    /\ attempts = [i \in Invokers |-> 0]
    /\ trail = [i \in Invokers |-> NoTrail]
    /\ pidFile = NoPid
    /\ lockFile = NoLock
    /\ procs = {}
    /\ listener = NoPid
    /\ spawned = 0

\* no killProcessesOnPort call and no process
KillAtRest ==
    /\ kpc = "Idle"
    /\ kAttempt = 0
    /\ targetPids = {}
    /\ pids = {}
    /\ retry = 0
    /\ killResult = "none"
    /\ alive = {}
    /\ listening = {}
    /\ connected = {}
    /\ foreign = {}
    /\ signalled = {}
    /\ rebound = {}

\* no socket and no findProcessesOnPort call
DetectAtRest ==
    /\ sockets = {}
    /\ tools = [platform |-> "linux", ss |-> "ok", lsof |-> TRUE]
    /\ queried = 0
    /\ foundPids = {}

NoCall == [kind |-> "none"]

\* no getHashBasedPort call
AssignAtRest ==
    /\ envPort = NoEnvPort
    /\ projectRoot = {}
    /\ firstCall = NoCall
    /\ secondCall = NoCall

NoStatus == [running |-> FALSE, pid |-> NoPid, stale |-> FALSE]
NoLog == [pidAlive |-> FALSE, foundPids |-> {}, stoppedAny |-> FALSE,
          killsDone |-> FALSE, pidDeleted |-> FALSE, warned |-> FALSE,
          stopReturned |-> FALSE, startChecked |-> FALSE,
          startSawLive |-> FALSE, startPortBusy |-> FALSE]

\* no command of the service manager
ManageAtRest ==
    /\ mcmd = "none"
    /\ mpc = "Done"
    /\ status = NoStatus
    /\ pidFromFile = NoPid
    /\ orphanedPids = <<>>
    /\ killCalls = <<>>
    /\ sockCount = 1
    /\ unkillable = {}
    /\ mlog = NoLog

\* loadConfig has not been called
NoConfig == [kind |-> "none"]
ConfigAtRest ==
    /\ build = "none"
    /\ packageJson = [kind |-> "none"]
    /\ config = NoConfig

\* getAvailableDevPort has not been called
NoDevPort == [kind |-> "none"]
ScriptAtRest ==
    /\ portEnv = <<>>
    /\ portFile = <<>>
    /\ rootHash = 0
    /\ devPort = NoDevPort
    /\ wtConfig = NoDevPort

\* no write to a singleton file
FileNames == {"wt-dev-inngest.pid", "flowt-inngest.pid", ".dev-port"}
NoWrite == [writer |-> "none"]
NotSeen == [read |-> FALSE]
FilesAtRest ==
    /\ files = [f \in FileNames |-> <<>>]
    /\ tempFile = <<>>
    /\ fw = NoWrite
    /\ prevText = <<>>
    /\ seen = NotSeen

\* no dev-server command
NoExit == 0 - 1
NoDevLog ==
    [portInUse |-> FALSE, killed |-> FALSE, shutdown |-> FALSE,
     ensured |-> FALSE, launched |-> FALSE]
DevAtRest ==
    /\ dflag = "none"
    /\ poolState = "ok"
    /\ dpc = "Idle"
    /\ dlog = NoDevLog
    /\ exitCode = NoExit

\* listWorktrees has not been called: no cache, one worktree
Dirs == {"/repo", "/repo/src"}
NoCache == [cached |-> FALSE, worktrees |-> <<>>, timestamp |-> 0, cwd |-> "none"]
NeverCached == 0 - 1
NoHistory == [at |-> [d \in Dirs |-> NeverCached], last |-> "none"]
NoWtCall == [kind |-> "none"]
CacheAtRest ==
    /\ worktreeCache = NoCache
    /\ now = 0
    /\ gitWorktrees = 1
    /\ history = NoHistory
    /\ wtCall = NoWtCall

\* the five parts above at rest
LaterPartsAtRest ==
    ConfigAtRest /\ ScriptAtRest /\ FilesAtRest /\ DevAtRest /\ CacheAtRest

\* a pool and no worktree
PortsAtRest ==
    /\ ports = generatePortPool(DEFAULT_BASE_PORT, 1)
    /\ worktrees = <<>>
    /\ result = resolveAllPorts(<<>>, ports)
    /\ lastOp = "none"

InitPorts ==
    /\ \E n \in 1 .. MaxPorts : ports = generatePortPool(DEFAULT_BASE_PORT, n)
    /\ worktrees = <<>>
    /\ result = resolveAllPorts(<<>>, ports)
    /\ lastOp = "none"
    /\ EnsureAtRest
    /\ KillAtRest
    /\ DetectAtRest
    /\ AssignAtRest
    /\ ManageAtRest
    /\ LaterPartsAtRest

\* git worktree add: the new worktree is listed after the existing ones
AddWorktree ==
    /\ Len(worktrees) < MaxWorktrees
    /\ \E c \in Paths \ Range(worktrees) :
          /\ worktrees' = Append(worktrees, c)
          /\ result' = resolveAllPorts(Append(worktrees, c), ports)
    /\ lastOp' = "append"
    /\ UNCHANGED <<ports, besidesPorts>>

\* git worktree remove: the others keep their relative order
RemoveWorktree ==
    /\ \E k \in 1 .. Len(worktrees) :
          /\ worktrees' = RemoveAt(worktrees, k)
          /\ result' = resolveAllPorts(RemoveAt(worktrees, k), ports)
    /\ lastOp' = "remove"
    /\ UNCHANGED <<ports, besidesPorts>>

NextPorts == AddWorktree \/ RemoveWorktree

SpecPorts == InitPorts /\ [][NextPorts]_vars

(***************************************************************************)
(* Singleton service manager: ensureInngestServer, one action per step     *)
(* between two points where another process can run.                       *)
(***************************************************************************)
readPidFile == pidFile
isProcessRunning(pid) == pid \in procs
isPortInUse == listener # NoPid
\* any response from the port counts as healthy
isServerHealthy == listener # NoPid

Goto(i, label) == pc' = [pc EXCEPT ![i] = label]
Note(i, field, value) == trail' = [trail EXCEPT ![i][field] = value]

\* const existingPid = readPidFile(PID_FILE); if (existingPid) ...
ReadPid(i) ==
    /\ pc[i] = "ReadPid"
    /\ existingPid' = [existingPid EXCEPT ![i] = readPidFile]
    /\ Goto(i, IF readPidFile # NoPid THEN "CheckRunning" ELSE "ProbePort")
    /\ UNCHANGED <<inngest, attempts, trail, pidFile, lockFile, procs, listener,
                   spawned, besidesEnsure>>

\* an existence check that does not return when the process is alive
CheckRunningNoReturn(i) ==
    /\ pc[i] = "CheckRunning"
    /\ Note(i, "sawLive", isProcessRunning(existingPid[i]))
    /\ Goto(i, "DeleteStale")
    /\ existingPid' = [existingPid EXCEPT
                         ![i] = IF isProcessRunning(existingPid[i]) THEN NoPid
                                ELSE existingPid[i]]
    /\ UNCHANGED <<inngest, attempts, pidFile, lockFile, procs, listener, spawned,
                   besidesEnsure>>

\* if (isProcessRunning(existingPid)) return; else: stale.  existingPid is not
\* read after this test; it is kept here when the process is dead, to tell
\* which PID file the invocation found stale.
CheckRunning(i) ==
    /\ pc[i] = "CheckRunning"
    /\ Note(i, "sawLive", isProcessRunning(existingPid[i]))
    /\ Goto(i, IF isProcessRunning(existingPid[i]) THEN "Done" ELSE "DeleteStale")
    /\ existingPid' = [existingPid EXCEPT
                         ![i] = IF isProcessRunning(existingPid[i]) THEN NoPid
                                ELSE existingPid[i]]
    /\ UNCHANGED <<inngest, attempts, pidFile, lockFile, procs, listener, spawned,
                   besidesEnsure>>

\* DeleteStale without the deletion
DeleteStaleSkipped(i) ==
    /\ pc[i] = "DeleteStale"
    /\ Goto(i, "ProbePort")
    /\ UNCHANGED <<existingPid, inngest, attempts, trail, pidFile, lockFile, procs,
                   listener, spawned, besidesEnsure>>

\* deletePidFile(PID_FILE)
DeleteStale(i) ==
    /\ pc[i] = "DeleteStale"
    /\ pidFile' = NoPid
    /\ Note(i, "pidTouched", TRUE)
    /\ Goto(i, "ProbePort")
    /\ UNCHANGED <<existingPid, inngest, attempts, lockFile, procs, listener,
                   spawned, besidesEnsure>>

\* a port probe that goes on to the lock although the port is in use
ProbePortNoReturn(i) ==
    /\ pc[i] = "ProbePort"
    /\ Note(i, "portBusy", isPortInUse)
    /\ Goto(i, "Lock1")
    /\ UNCHANGED <<existingPid, inngest, attempts, pidFile, lockFile, procs,
                   listener, spawned, besidesEnsure>>

\* if (await isPortInUse(inngestPort)) return;
ProbePort(i) ==
    /\ pc[i] = "ProbePort"
    /\ Note(i, "portBusy", isPortInUse)
    /\ Goto(i, IF isPortInUse THEN "Done" ELSE "Lock1")
    /\ UNCHANGED <<existingPid, inngest, attempts, pidFile, lockFile, procs,
                   listener, spawned, besidesEnsure>>

\* a lock that is taken by writing the file whether or not it exists
acquireLockOverwriting(i, order, failLabel) ==
    /\ lockFile' = i
    /\ trail' = [trail EXCEPT ![i].lockTried = TRUE, ![i].acquired = order,
                              ![i].lockTries = @ + 1]
    /\ Goto(i, "Spawn")

\* acquireLock: exclusive creation of the lock file (flag wx)
acquireLock(i, order, failLabel) ==
    IF lockFile = NoLock
    THEN /\ lockFile' = i
         /\ trail' = [trail EXCEPT ![i].lockTried = TRUE, ![i].acquired = order,
                                   ![i].lockTries = @ + 1]
         /\ Goto(i, "Spawn")
    ELSE /\ lockFile' = lockFile
         /\ trail' = [trail EXCEPT ![i].lockTried = TRUE, ![i].lockTries = @ + 1]
         /\ Goto(i, failLabel)

\* if (!acquireLock(LOCK_FILE)) { await sleep(2000); ...
Lock1(i) ==
    /\ pc[i] = "Lock1"
    /\ acquireLock(i, "first", "Recheck")
    /\ UNCHANGED <<existingPid, inngest, attempts, pidFile, procs, listener,
                   spawned, besidesEnsure>>

\* a re-probe that goes for the lock again whatever the health probe says
RecheckIgnoringHealth(i) ==
    /\ pc[i] = "Recheck"
    /\ Note(i, "recheckHealthy", isServerHealthy)
    /\ Goto(i, "Lock2")
    /\ UNCHANGED <<existingPid, inngest, attempts, pidFile, lockFile, procs,
                   listener, spawned, besidesEnsure>>

\* if (await isServerHealthy(inngestPort)) return;
Recheck(i) ==
    /\ pc[i] = "Recheck"
    /\ Note(i, "recheckHealthy", isServerHealthy)
    /\ Goto(i, IF isServerHealthy THEN "Done" ELSE "Lock2")
    /\ UNCHANGED <<existingPid, inngest, attempts, pidFile, lockFile, procs,
                   listener, spawned, besidesEnsure>>

\* if (!acquireLock(LOCK_FILE)) return;
Lock2(i) ==
    /\ pc[i] = "Lock2"
    /\ acquireLock(i, "second", "Done")
    /\ UNCHANGED <<existingPid, inngest, attempts, pidFile, procs, listener,
                   spawned, besidesEnsure>>

\* a start that does not record the PID of the process it spawned
SpawnOkUnrecorded(i) ==
    /\ pc[i] = "Spawn"
    /\ spawned' = spawned + 1
    /\ procs' = procs \cup {spawned + 1}
    /\ inngest' = [inngest EXCEPT ![i] = spawned + 1]
    /\ Goto(i, "Health")
    /\ UNCHANGED <<existingPid, attempts, trail, pidFile, lockFile, listener,
                   besidesEnsure>>

\* startInngestServerProcess up to spawn(): a new detached process
SpawnOk(i) ==
    /\ pc[i] = "Spawn"
    /\ spawned' = spawned + 1
    /\ procs' = procs \cup {spawned + 1}
    /\ inngest' = [inngest EXCEPT ![i] = spawned + 1]
    /\ Goto(i, "WritePid")
    /\ UNCHANGED <<existingPid, attempts, trail, pidFile, lockFile, listener,
                   besidesEnsure>>

\* a failed start that leaves without running a finally block
SpawnFailNoFinally(i) ==
    /\ pc[i] = "Spawn"
    /\ \E ev \in BOOLEAN :
          trail' = [trail EXCEPT ![i].threw = TRUE, ![i].errorEvent = ev]
    /\ Goto(i, "Threw")
    /\ UNCHANGED <<existingPid, inngest, attempts, pidFile, lockFile, procs,
                   listener, spawned, besidesEnsure>>

\* startInngestServerProcess throws: findInngestCli or openSync fails, spawn
\* throws, or spawn yields no pid (then the 'error' event is still to come);
\* control passes to the finally block
SpawnFail(i) ==
    /\ pc[i] = "Spawn"
    /\ \E ev \in BOOLEAN :
          trail' = [trail EXCEPT ![i].threw = TRUE, ![i].errorEvent = ev]
    /\ Goto(i, "Release")
    /\ UNCHANGED <<existingPid, inngest, attempts, pidFile, lockFile, procs,
                   listener, spawned, besidesEnsure>>

\* a PID write that releases the lock before the health wait starts
WritePidAndRelease(i) ==
    /\ pc[i] = "WritePid"
    /\ pidFile' = inngest[i]
    /\ lockFile' = NoLock
    /\ trail' = [trail EXCEPT ![i].pidTouched = TRUE, ![i].pidWritten = TRUE]
    /\ attempts' = [attempts EXCEPT ![i] = 0]
    /\ Goto(i, "Health")
    /\ UNCHANGED <<existingPid, inngest, procs, listener, spawned, besidesEnsure>>

\* writePidFile(PID_FILE, pid), then waitForServerHealth starts
WritePid(i) ==
    /\ pc[i] = "WritePid"
    /\ pidFile' = inngest[i]
    /\ trail' = [trail EXCEPT ![i].pidTouched = TRUE, ![i].pidWritten = TRUE]
    /\ attempts' = [attempts EXCEPT ![i] = 0]
    /\ Goto(i, "Health")
    /\ UNCHANGED <<existingPid, inngest, lockFile, procs, listener, spawned,
                   besidesEnsure>>

\* a health wait whose timeout is fatal: the service is killed, its PID file
\* removed and the call throws
HealthFatalTimeout(i) ==
    /\ pc[i] = "Health"
    /\ IF isServerHealthy \/ attempts[i] + 1 >= HEALTH_CHECK_MAX_ATTEMPTS
       THEN /\ Goto(i, "Release")
            /\ attempts' = [attempts EXCEPT ![i] = 0]
            /\ trail' = [trail EXCEPT ![i].healthy = isServerHealthy,
                                      ![i].threw = ~isServerHealthy]
            /\ pidFile' = IF isServerHealthy THEN pidFile ELSE NoPid
            /\ procs' = IF isServerHealthy THEN procs ELSE procs \ {inngest[i]}
       ELSE /\ Goto(i, "Health")
            /\ attempts' = [attempts EXCEPT ![i] = attempts[i] + 1]
            /\ UNCHANGED <<trail, pidFile, procs>>
    /\ UNCHANGED <<existingPid, inngest, lockFile, listener, spawned,
                   besidesEnsure>>

\* one round of waitForServerHealth: probe, then sleep and count; the counter
\* is local to the call and is gone when the call returns
Health(i) ==
    /\ pc[i] = "Health"
    /\ IF isServerHealthy \/ attempts[i] + 1 >= HEALTH_CHECK_MAX_ATTEMPTS
       THEN /\ Goto(i, "Release")
            /\ attempts' = [attempts EXCEPT ![i] = 0]
            /\ Note(i, "healthy", isServerHealthy)
       ELSE /\ Goto(i, "Health")
            /\ attempts' = [attempts EXCEPT ![i] = attempts[i] + 1]
            /\ UNCHANGED trail
    /\ UNCHANGED <<existingPid, inngest, pidFile, lockFile, procs, listener,
                   spawned, besidesEnsure>>

\* finally { releaseLock(LOCK_FILE) }: unlink the lock file if it exists
Release(i) ==
    /\ pc[i] = "Release"
    /\ lockFile' = NoLock
    /\ Goto(i, IF trail[i].threw THEN "Threw" ELSE "Done")
    /\ UNCHANGED <<existingPid, inngest, attempts, trail, pidFile, procs, listener,
                   spawned, besidesEnsure>>

\* inngest.on('error'): deletePidFile(PID_FILE)
SpawnErrorEvent(i) ==
    /\ pc[i] = "Threw"
    /\ trail[i].errorEvent
    /\ pidFile' = NoPid
    /\ trail' = [trail EXCEPT ![i].errorEvent = FALSE, ![i].pidTouched = TRUE]
    /\ UNCHANGED <<pc, existingPid, inngest, attempts, lockFile, procs, listener,
                   spawned, besidesEnsure>>

\* a spawned service binds inngestPort once it has initialised
ServiceBinds ==
    /\ listener = NoPid
    /\ \E p \in procs : listener' = p
    /\ UNCHANGED <<pc, existingPid, inngest, attempts, trail, pidFile, lockFile,
                   procs, spawned, besidesEnsure>>

\* a service process exits (crash, or the port was taken)
ServiceExits ==
    /\ \E p \in procs :
          /\ procs' = procs \ {p}
          /\ listener' = IF listener = p THEN NoPid ELSE listener
    /\ UNCHANGED <<pc, existingPid, inngest, attempts, trail, pidFile, lockFile,
                   spawned, besidesEnsure>>

Init ==
    PortsAtRest /\ EnsureAtRest /\ KillAtRest /\ DetectAtRest /\ AssignAtRest
        /\ ManageAtRest /\ LaterPartsAtRest

Next ==
    \/ \E i \in Invokers :
          \/ ReadPid(i) \/ CheckRunning(i) \/ DeleteStale(i) \/ ProbePort(i)
          \/ Lock1(i) \/ Recheck(i) \/ Lock2(i)
          \/ SpawnOk(i) \/ SpawnFail(i) \/ WritePid(i) \/ Health(i) \/ Release(i)
          \/ SpawnErrorEvent(i)
    \/ ServiceBinds
    \/ ServiceExits

Spec == Init /\ [][Next]_vars

(***************************************************************************)
(* Invocations that follow one another, some of them terminated abruptly.  *)
(***************************************************************************)
\* an invocation that is not running: not started, returned, thrown with its
\* error handler done, or terminated
AtEnd(i) ==
    \/ pc[i] \in {"Waiting", "Done", "Killed"}
    \/ pc[i] = "Threw" /\ ~trail[i].errorEvent

\* ensureInngestServer is called while no shared service runs, its port is
\* free and no other invocation is in progress
StartEnsure(i) ==
    /\ pc[i] = "Waiting"
    /\ \A j \in Invokers : AtEnd(j)
    /\ procs = {}
    /\ ~isPortInUse
    /\ Goto(i, "ReadPid")
    /\ UNCHANGED <<existingPid, inngest, attempts, trail, pidFile, lockFile, procs,
                   listener, spawned, besidesEnsure>>

\* the process of an invocation is terminated (SIGKILL) at whatever step it
\* is; no handler and no finally block runs, the files stay as they are
Terminate(i) ==
    /\ ~AtEnd(i)
    /\ Goto(i, "Killed")
    /\ UNCHANGED <<existingPid, inngest, attempts, trail, pidFile, lockFile, procs,
                   listener, spawned, besidesEnsure>>

InitRecover ==
    /\ PortsAtRest /\ KillAtRest /\ DetectAtRest /\ AssignAtRest
    /\ ManageAtRest /\ LaterPartsAtRest
    /\ pc = [i \in Invokers |-> "Waiting"]
    /\ existingPid = [i \in Invokers |-> NoPid]
    /\ inngest = [i \in Invokers |-> NoPid]
    /\ attempts = [i \in Invokers |-> 0]
    /\ trail = [i \in Invokers |-> NoTrail]
    /\ pidFile = NoPid
    /\ lockFile = NoLock
    /\ procs = {}
    /\ listener = NoPid
    /\ spawned = 0

NextRecover ==
    \/ \E i \in Invokers :
          \/ StartEnsure(i) \/ Terminate(i)
          \/ ReadPid(i) \/ CheckRunning(i) \/ DeleteStale(i) \/ ProbePort(i)
          \/ Lock1(i) \/ Recheck(i) \/ Lock2(i)
          \/ SpawnOk(i) \/ SpawnFail(i) \/ WritePid(i) \/ Health(i) \/ Release(i)
          \/ SpawnErrorEvent(i)
    \/ ServiceBinds
    \/ ServiceExits

SpecRecover == InitRecover /\ [][NextRecover]_vars

(***************************************************************************)
(* Process terminator: killProcessesOnPort and waitForPortRelease, one     *)
(* action per step between two points where other processes can run.       *)
(***************************************************************************)
KPids == 1 .. NumProcs

\* findProcessesOnPort: the PIDs listening on the port
findProcessesOnPort == listening
\* isPortInUse for the terminator's port
isKillPortInUse == listening # {}
\* lsof -ti :port : every process with a socket on the port, in any state
lsofAnyState == listening \cup connected

Return(value) ==
    /\ kpc' = "Done"
    /\ killResult' = value

\* const initialPids = findProcessesOnPort(port); targetPids = new Set(initialPids)
KStart ==
    /\ kpc = "Start"
    /\ targetPids' = findProcessesOnPort
    /\ kpc' = "LoopHead"
    /\ UNCHANGED <<kAttempt, pids, retry, killResult, alive, listening, connected,
                   foreign, signalled, rebound, besidesKill>>

\* a loop head that does not count its rounds
KLoopHeadUncounted ==
    /\ kpc = "LoopHead"
    /\ pids' = findProcessesOnPort
    /\ kpc' = IF findProcessesOnPort = {} THEN "DoubleCheck" ELSE "KillLoop"
    /\ UNCHANGED <<kAttempt, targetPids, retry, killResult, alive, listening,
                   connected, foreign, signalled, rebound, besidesKill>>

\* while (kAttempt < MAX_KILL_ATTEMPTS) { kAttempt++; pids = findProcessesOnPort(port)
KLoopHead ==
    /\ kpc = "LoopHead"
    /\ IF kAttempt < MAX_KILL_ATTEMPTS
       THEN /\ kAttempt' = kAttempt + 1
            /\ pids' = findProcessesOnPort
            /\ kpc' = IF findProcessesOnPort = {} THEN "DoubleCheck" ELSE "KillLoop"
       ELSE /\ kpc' = "Fallback"
            /\ UNCHANGED <<kAttempt, pids>>
    /\ UNCHANGED <<targetPids, retry, killResult, alive, listening, connected,
                   foreign, signalled, rebound, besidesKill>>

\* an empty PID list taken as success without probing the port
KDoubleCheckTrusting ==
    /\ kpc = "DoubleCheck"
    /\ Return("true")
    /\ UNCHANGED <<kAttempt, targetPids, pids, retry, alive, listening, connected,
                   foreign, signalled, rebound, besidesKill>>

\* if (pids.length === 0): portFree = !(await isPortInUse(port))
KDoubleCheck ==
    /\ kpc = "DoubleCheck"
    /\ IF ~isKillPortInUse
       THEN Return("true")
       ELSE kpc' = "LoopHead" /\ UNCHANGED killResult
    /\ UNCHANGED <<kAttempt, targetPids, pids, retry, alive, listening, connected,
                   foreign, signalled, rebound, besidesKill>>

\* one pass of for (const pid of pids) { process.kill(pid, "SIGKILL"); ... }:
\* ESRCH is ignored, any other error (EPERM) is rethrown; after the last PID
\* the SIGKILL wait and waitForPortRelease(port, targetPids, 3) follow
KKill ==
    /\ kpc = "KillLoop"
    /\ \E pid \in pids :
          IF pid \notin alive
          THEN /\ pids' = pids \ {pid}
               /\ kpc' = IF pids' = {} THEN "WaitProbe" ELSE "KillLoop"
               /\ UNCHANGED <<targetPids, signalled, killResult>>
          ELSE IF pid \in foreign
          THEN /\ Return("threw")
               /\ UNCHANGED <<pids, targetPids, signalled>>
          ELSE /\ signalled' = signalled \cup {pid}
               /\ targetPids' = targetPids \cup {pid}
               /\ pids' = pids \ {pid}
               /\ kpc' = IF pids' = {} THEN "WaitProbe" ELSE "KillLoop"
               /\ UNCHANGED killResult
    /\ retry' = 0
    /\ UNCHANGED <<kAttempt, alive, listening, connected, foreign, rebound,
                   besidesKill>>

\* waitForPortRelease ran out of retries (return false), or one more round
WaitNext(probeLabel, maxRetries, onFalse) ==
    IF retry + 1 >= maxRetries
    THEN /\ retry' = 0
         /\ IF onFalse = "Done" THEN Return("false")
            ELSE kpc' = onFalse /\ UNCHANGED killResult
    ELSE /\ retry' = retry + 1
         /\ kpc' = probeLabel
         /\ UNCHANGED killResult

\* waitForPortRelease: stillInUse = await isPortInUse(port)
WaitProbe(probeLabel, findLabel, maxRetries, onFalse) ==
    /\ IF ~isKillPortInUse
       THEN Return("true") /\ retry' = 0
       ELSE IF targetPids # {}
       THEN kpc' = findLabel /\ UNCHANGED <<retry, killResult>>
       ELSE WaitNext(probeLabel, maxRetries, onFalse)
    /\ UNCHANGED <<kAttempt, targetPids, pids, alive, listening, connected,
                   foreign, signalled, rebound, besidesKill>>

\* waitForPortRelease: currentPids = findProcessesOnPort(port); the throw on a
\* re-bound port is caught by killProcessesOnPort, which returns false
WaitFind(probeLabel, maxRetries, onFalse) ==
    /\ IF findProcessesOnPort \cap targetPids = {} /\ findProcessesOnPort # {}
       THEN Return("false") /\ retry' = 0
       ELSE WaitNext(probeLabel, maxRetries, onFalse)
    /\ UNCHANGED <<kAttempt, targetPids, pids, alive, listening, connected,
                   foreign, signalled, rebound, besidesKill>>

\* waitForPortRelease(port, targetPids, 3) of the kill loop; false: next attempt
KLoopWaitProbe ==
    /\ kpc = "WaitProbe"
    /\ WaitProbe("WaitProbe", "WaitFind", LOOP_PORT_CHECK_RETRIES, "LoopHead")

KLoopWaitFind ==
    /\ kpc = "WaitFind"
    /\ WaitFind("WaitProbe", LOOP_PORT_CHECK_RETRIES, "LoopHead")

\* final fallback: execFileSync("lsof", ["-ti", `:${port}`]); lsof finding
\* nothing exits non-zero, which the outer catch turns into return false
KFallback ==
    /\ kpc = "Fallback"
    /\ IF lsofAnyState = {}
       THEN Return("false") /\ UNCHANGED pids
       ELSE /\ pids' = lsofAnyState
            /\ kpc' = "FallbackKill"
            /\ UNCHANGED killResult
    /\ UNCHANGED <<kAttempt, targetPids, retry, alive, listening, connected,
                   foreign, signalled, rebound, besidesKill>>

\* for (const pid of fallbackPids) { try { process.kill(pid, "SIGKILL"); ... }
\* catch {} }, then the SIGKILL wait and waitForPortRelease(.., 10)
KFallbackKill ==
    /\ kpc = "FallbackKill"
    /\ \E pid \in pids :
          /\ pids' = pids \ {pid}
          /\ kpc' = IF pids' = {} THEN "LastProbe" ELSE "FallbackKill"
          /\ IF pid \in alive /\ pid \notin foreign
             THEN /\ signalled' = signalled \cup {pid}
                  /\ targetPids' = targetPids \cup {pid}
             ELSE UNCHANGED <<targetPids, signalled>>
    /\ retry' = 0
    /\ UNCHANGED <<kAttempt, killResult, alive, listening, connected, foreign,
                   rebound, besidesKill>>

\* waitForPortRelease(port, targetPids, MAX_PORT_CHECK_RETRIES) of the fallback
KLastWaitProbe ==
    /\ kpc = "LastProbe"
    /\ WaitProbe("LastProbe", "LastFind", MAX_PORT_CHECK_RETRIES, "Done")

KLastWaitFind ==
    /\ kpc = "LastFind"
    /\ WaitFind("LastProbe", MAX_PORT_CHECK_RETRIES, "Done")

\* a process exits: by itself, or because it was sent SIGKILL
ProcExits ==
    /\ kpc \notin {"Idle", "Done"}
    /\ \E p \in alive :
          /\ alive' = alive \ {p}
          /\ listening' = listening \ {p}
          /\ connected' = connected \ {p}
    /\ UNCHANGED <<kpc, kAttempt, targetPids, pids, retry, killResult, foreign,
                   signalled, rebound, besidesKill>>

\* a process that is not being killed binds the port once it is free; rebound
\* records the binders outside the target set that take the port over from a
\* target while killProcessesOnPort is running
ProcBinds ==
    /\ kpc \notin {"Idle", "Done"}
    /\ listening = {}
    /\ \E u \in alive \ (signalled \cup connected) :
          /\ listening' = {u}
          /\ rebound' = IF targetPids # {} /\ u \notin targetPids
                        THEN rebound \cup {u} ELSE rebound
    /\ UNCHANGED <<kpc, kAttempt, targetPids, pids, retry, killResult, alive,
                   connected, foreign, signalled, besidesKill>>

InitKill ==
    /\ PortsAtRest
    /\ EnsureAtRest
    /\ DetectAtRest
    /\ AssignAtRest
    /\ ManageAtRest
    /\ LaterPartsAtRest
    /\ kpc = "Start"
    /\ kAttempt = 0
    /\ targetPids = {}
    /\ pids = {}
    /\ retry = 0
    /\ killResult = "none"
    /\ alive = KPids
    /\ listening \in SUBSET KPids
    /\ connected \in SUBSET (KPids \ listening)
    /\ foreign \in SUBSET KPids
    /\ signalled = {}
    /\ rebound = {}

NextKill ==
    \/ KStart \/ KLoopHead \/ KDoubleCheck \/ KKill
    \/ KLoopWaitProbe \/ KLoopWaitFind
    \/ KFallback \/ KFallbackKill
    \/ KLastWaitProbe \/ KLastWaitFind
    \/ ProcExits \/ ProcBinds

SpecKill == InitKill /\ [][NextKill]_vars

\* the steps of killProcessesOnPort itself
KillStep ==
    \/ KStart \/ KLoopHead \/ KDoubleCheck \/ KKill
    \/ KLoopWaitProbe \/ KLoopWaitFind
    \/ KFallback \/ KFallbackKill
    \/ KLastWaitProbe \/ KLastWaitFind

\* the call keeps running: every sleep and every child process it waits for
\* ends
SpecKillFair == SpecKill /\ WF_vars(KillStep)

(***************************************************************************)
(* Port inspection: findProcessesOnPort over the machine's socket table.   *)
(* A socket is its owner, its TCP state, its local port and its peer port  *)
(* (AnyPeer for a listening socket).  The tools print one line per socket. *)
(***************************************************************************)
\* the peer column of a listening socket ("*", as in 0.0.0.0:*)
AnyPeer == 0
SockPids == {1, 2}
SockPorts == {3000, 3001}
AllSockets ==
    [pid : SockPids, state : {"LISTEN"}, local : SockPorts, peer : {AnyPeer}]
        \cup [pid : SockPids, state : {"ESTAB"}, local : SockPorts, peer : SockPorts]
Toolsets == [platform : {"linux", "win32"}, ss : {"ok", "nopids", "missing"},
             lsof : BOOLEAN]

\* ss -tlnp: the listening TCP sockets; the users:(("name",pid=..)) column is
\* there only for processes the caller may inspect
ssTlnp == {[local |-> k.local, peer |-> k.peer,
            users |-> IF tools.ss = "ok" THEN {k.pid} ELSE {}] :
              k \in {x \in sockets : x.state = "LISTEN"}}
\* ss without -l: every TCP socket
ssTnp == {[local |-> k.local, peer |-> k.peer,
           users |-> IF tools.ss = "ok" THEN {k.pid} ELSE {}] : k \in sockets}

\* new RegExp(`:${port}\\s`).test(line): the pattern is tried on the whole
\* line, so the local and the peer address column can both match
portPattern(port, line) == line.local = port \/ line.peer = port

\* the pid=(\d+) matches of the matching lines
ssPids(port, lines) ==
    UNION {line.users : line \in {l \in lines : portPattern(port, l)}}

\* lsof -ti :port -sTCP:LISTEN: sockets with the port on either end, in state
\* LISTEN
lsofListen(port) ==
    {k.pid : k \in {x \in sockets :
                      (x.local = port \/ x.peer = port) /\ x.state = "LISTEN"}}
\* lsof -ti :port: sockets with the port on either end, in any state
lsofAny(port) ==
    {k.pid : k \in {x \in sockets : x.local = port \/ x.peer = port}}

\* netstat -ano on Windows: parts[3] === 'LISTENING' and parts[1] (the local
\* address) ends with `:${port}`; the last column is the PID
netstatListening(port) ==
    {k.pid : k \in {x \in sockets : x.state = "LISTEN" /\ x.local = port}}

\* findProcessesOnPort with the ss and the lsof query given
findProcessesWith(port, lines, lsofPids) ==
    IF tools.platform = "win32" THEN netstatListening(port)
    ELSE IF tools.ss # "missing" /\ ssPids(port, lines) # {}
    THEN ssPids(port, lines)
    ELSE IF tools.lsof THEN lsofPids ELSE {}

\* an inspection that asks for sockets in any state
findProcessesAnyState(port) == findProcessesWith(port, ssTnp, lsofAny(port))

findProcessesOnPortOf(port) == findProcessesWith(port, ssTlnp, lsofListen(port))

\* the processes listening on the port
ListeningOn(port) ==
    {k.pid : k \in {x \in sockets : x.state = "LISTEN" /\ x.local = port}}
\* the processes that hold an established connection involving the port
ConnectedTo(port) ==
    {k.pid : k \in {x \in sockets :
                      x.state = "ESTAB" /\ (x.local = port \/ x.peer = port)}}

\* a process opens a socket: listen(), connect() or accept()
OpenSocket ==
    /\ Cardinality(sockets) < MaxSockets
    /\ \E k \in AllSockets \ sockets : sockets' = sockets \cup {k}
    /\ UNCHANGED <<tools, queried, foundPids, besidesDetect>>

CloseSocket ==
    /\ \E k \in sockets : sockets' = sockets \ {k}
    /\ UNCHANGED <<tools, queried, foundPids, besidesDetect>>

FindProcesses ==
    /\ \E port \in SockPorts :
          /\ queried' = port
          /\ foundPids' = findProcessesOnPortOf(port)
    /\ UNCHANGED <<sockets, tools, besidesDetect>>

InitDetect ==
    /\ PortsAtRest
    /\ EnsureAtRest
    /\ KillAtRest
    /\ AssignAtRest
    /\ ManageAtRest
    /\ LaterPartsAtRest
    /\ sockets = {}
    /\ tools \in Toolsets
    /\ queried = 0
    /\ foundPids = {}

NextDetect == OpenSocket \/ CloseSocket \/ FindProcesses

SpecDetect == InitDetect /\ [][NextDetect]_vars

(***************************************************************************)
(* Port lookup of one project: getHashBasedPort, called twice.             *)
(***************************************************************************)
\* the paths the looked-up lists are made of: three that collide on their
\* primary candidate and one that does not
AssignPaths == {w \in Paths : w.primary = 0 \/ (w.rest = 0 /\ w.primary = 1)}
\* values of process.env.PORT: not set, a valid port, a number out of range
EnvPorts == {NoEnvPort, 8080, 70000}

\* the lists of at most n distinct members of S
DistinctLists(S, n) ==
    {l \in UNION {[1 .. k -> S] : k \in 0 .. n} :
       \A a, b \in 1 .. Len(l) : a # b => l[a] # l[b]}

\* the PORT override is taken when it parses to a port number in range
ValidOverride(env) == env # NoEnvPort /\ env >= MIN_PORT /\ env <= MAX_PORT

RECURSIVE FirstContaining(_, _, _)
\* findContainingWorktree: the first worktree in list order that is the
\* project or contains it, {} for null
FirstContaining(containers, wts, i) ==
    IF i > Len(wts) THEN {}
    ELSE IF wts[i] \in containers THEN {wts[i]}
    ELSE FirstContaining(containers, wts, i + 1)

findContainingWorktree(containers, wts) == FirstContaining(containers, wts, 1)

PortOutcome(port) == [kind |-> "port", port |-> port]

\* a lookup that moves on to the next pool member on every further call
getHashBasedPortRotating(containers, pool) ==
    LET base == IF findContainingWorktree(containers, worktrees) = {}
                THEN 0 ELSE (CHOOSE w \in containers : TRUE).primary
        shift == IF firstCall = NoCall THEN 0 ELSE 1
    IN  PortOutcome(pool[((base + shift) % Len(pool)) + 1])

\* a lookup that falls back to the last port of the pool
getHashBasedPortLastPort(containers, pool) ==
    IF ValidOverride(envPort) THEN PortOutcome(envPort)
    ELSE IF Len(worktrees) = 0 THEN PortOutcome(pool[Len(pool)])
    ELSE LET myWorktree == findContainingWorktree(containers, worktrees)
         IN  IF myWorktree = {} THEN PortOutcome(pool[Len(pool)])
             ELSE LET portAssignments == resolveAllPorts(worktrees, pool)
                      wt == CHOOSE w \in myWorktree : TRUE
                  IN  IF portAssignments.kind # "Map" THEN portAssignments
                      ELSE PortOutcome(portAssignments.assignments[wt])

\* getHashBasedPort(projectRoot, ports); listWorktrees(projectRoot) is the
\* current worktree list
getHashBasedPort(containers, pool) ==
    IF ValidOverride(envPort) THEN PortOutcome(envPort)
    ELSE IF Len(worktrees) = 0 THEN PortOutcome(pool[1])
    ELSE LET myWorktree == findContainingWorktree(containers, worktrees)
         IN  IF myWorktree = {} THEN PortOutcome(pool[1])
             ELSE LET portAssignments == resolveAllPorts(worktrees, pool)
                      wt == CHOOSE w \in myWorktree : TRUE
                  IN  IF portAssignments.kind # "Map" THEN portAssignments
                      ELSE PortOutcome(portAssignments.assignments[wt])

\* what one call leaves behind: whether the override was in force, the
\* primary candidate of the project's worktree (0 without one), the outcome
CallRecord ==
    LET myWorktree == findContainingWorktree(projectRoot, worktrees)
    IN  [kind |-> "called",
         override |-> ValidOverride(envPort),
         primary |-> IF myWorktree = {} THEN 0
                     ELSE computeHashPort(CHOOSE w \in myWorktree : TRUE, ports),
         out |-> getHashBasedPort(projectRoot, ports)]

\* the environment of the calling process changes between two calls
SetEnvPort ==
    /\ \E e \in EnvPorts \ {envPort} : envPort' = e
    /\ UNCHANGED <<projectRoot, firstCall, secondCall, besidesAssign>>

GetPortFirst ==
    /\ firstCall = NoCall
    /\ firstCall' = CallRecord
    /\ UNCHANGED <<envPort, projectRoot, secondCall, besidesAssign>>

GetPortAgain ==
    /\ firstCall # NoCall
    /\ secondCall = NoCall
    /\ secondCall' = CallRecord
    /\ UNCHANGED <<envPort, projectRoot, firstCall, besidesAssign>>

InitAssign ==
    /\ EnsureAtRest
    /\ KillAtRest
    /\ DetectAtRest
    /\ ManageAtRest
    /\ LaterPartsAtRest
    /\ \E n \in 1 .. MaxPorts : ports = generatePortPool(DEFAULT_BASE_PORT, n)
    /\ worktrees \in DistinctLists(AssignPaths, MaxAssignList)
    /\ result = resolveAllPorts(worktrees, ports)
    /\ lastOp = "none"
    /\ envPort = NoEnvPort
    /\ projectRoot \in SUBSET Range(worktrees)
    /\ firstCall = NoCall
    /\ secondCall = NoCall

NextAssign == SetEnvPort \/ GetPortFirst \/ GetPortAgain

SpecAssign == InitAssign /\ [][NextAssign]_vars

(***************************************************************************)
(* Service manager commands: getInngestStatus, startInngestServer,         *)
(* stopInngestServer, restartInngestServer, run by one CLI process.  Its   *)
(* ensureInngestServer part is invocation Mgr of the steps above.          *)
(***************************************************************************)
Mgr == 1
\* the service processes that may exist before the command runs
InitialPids == {1, 2}
Commands == {"status", "ensure", "start", "stop", "restart"}
\* another CLI process, which may hold the lock when the command starts
OtherCli == NumInvokers + 1

Log(field, value) == mlog' = [mlog EXCEPT ![field] = value]

\* findProcessesOnPort(inngestPort) as the array it is: one entry per matching
\* ss line, so a process listening on the IPv4 and on the IPv6 address of the
\* port comes twice
findProcessesArray ==
    IF listener = NoPid THEN <<>>
    ELSE [k \in 1 .. sockCount |-> listener]

\* process.kill(pid, 'SIGKILL') inside try/catch: ESRCH is ignored, any other
\* error is a warning; stoppedAny is set when the call does not throw
Kill(pid) ==
    /\ killCalls' = Append(killCalls, pid)
    /\ Log("stoppedAny", mlog.stoppedAny \/ (pid \in procs /\ pid \notin unkillable))

\* a restart that starts the server before it stops the old one
DispatchStartFirst ==
    /\ mpc = "Begin"
    /\ mpc' = CASE mcmd = "status" -> "StatusRead"
                [] mcmd = "ensure" -> "InEnsure"
                [] mcmd = "stop" -> "StopReadPid"
                [] OTHER -> "StartReadPid"
    /\ pc' = IF mcmd = "ensure" THEN [pc EXCEPT ![Mgr] = "ReadPid"] ELSE pc
    /\ UNCHANGED <<existingPid, inngest, attempts, trail, pidFile, lockFile, procs,
                   listener, spawned, mcmd, status, pidFromFile, orphanedPids,
                   killCalls, sockCount, unkillable, mlog, besidesManage>>

\* the command line is dispatched
Dispatch ==
    /\ mpc = "Begin"
    /\ mpc' = CASE mcmd = "status" -> "StatusRead"
                [] mcmd = "ensure" -> "InEnsure"
                [] mcmd = "start" -> "StartReadPid"
                [] OTHER -> "StopReadPid"
    /\ pc' = IF mcmd = "ensure" THEN [pc EXCEPT ![Mgr] = "ReadPid"] ELSE pc
    /\ UNCHANGED <<existingPid, inngest, attempts, trail, pidFile, lockFile, procs,
                   listener, spawned, mcmd, status, pidFromFile, orphanedPids,
                   killCalls, sockCount, unkillable, mlog, besidesManage>>

\* getInngestStatus: const pid = readPidFile(PID_FILE)
StatusRead ==
    /\ mpc = "StatusRead"
    /\ pidFromFile' = readPidFile
    /\ mpc' = "StatusCheck"
    /\ UNCHANGED <<ensureVars, mcmd, status, orphanedPids, killCalls, sockCount,
                   unkillable, mlog, besidesManage>>

\* what getInngestStatus returns for the PID it read
StatusOf(pid) ==
    IF pid = NoPid THEN [running |-> FALSE, pid |-> NoPid, stale |-> FALSE]
    ELSE IF isProcessRunning(pid) THEN [running |-> TRUE, pid |-> pid, stale |-> FALSE]
    ELSE [running |-> FALSE, pid |-> NoPid, stale |-> TRUE]

\* a status query that removes the PID file it finds stale
StatusCheckCleaning ==
    /\ mpc = "StatusCheck"
    /\ status' = StatusOf(pidFromFile)
    /\ pidFile' = IF StatusOf(pidFromFile).stale THEN NoPid ELSE pidFile
    /\ mpc' = "Done"
    /\ UNCHANGED <<pc, existingPid, inngest, attempts, trail, lockFile, procs,
                   listener, spawned, mcmd, pidFromFile, orphanedPids, killCalls,
                   sockCount, unkillable, mlog, besidesManage>>

\* if (!pid) ...; if (isProcessRunning(pid)) ...; else stale
StatusCheck ==
    /\ mpc = "StatusCheck"
    /\ status' = StatusOf(pidFromFile)
    /\ mpc' = "Done"
    /\ UNCHANGED <<ensureVars, mcmd, pidFromFile, orphanedPids, killCalls,
                   sockCount, unkillable, mlog, besidesManage>>

\* startInngestServer: const existingPid = readPidFile(PID_FILE)
StartReadPid ==
    /\ mpc = "StartReadPid"
    /\ pidFromFile' = readPidFile
    /\ Log("startChecked", TRUE)
    /\ mpc' = "StartCheckPid"
    /\ UNCHANGED <<ensureVars, mcmd, status, orphanedPids, killCalls, sockCount,
                   unkillable, besidesManage>>

\* if (existingPid && isProcessRunning(existingPid)) return;
StartCheckPid ==
    /\ mpc = "StartCheckPid"
    /\ LET live == pidFromFile # NoPid /\ isProcessRunning(pidFromFile)
       IN  /\ Log("startSawLive", live)
           /\ mpc' = IF live THEN "Done" ELSE "StartProbe"
    /\ UNCHANGED <<ensureVars, mcmd, status, pidFromFile, orphanedPids, killCalls,
                   sockCount, unkillable, besidesManage>>

\* if (await isPortInUse(inngestPort)) return; await ensureInngestServer(cfg)
StartProbe ==
    /\ mpc = "StartProbe"
    /\ Log("startPortBusy", isPortInUse)
    /\ mpc' = IF isPortInUse THEN "Done" ELSE "InEnsure"
    /\ pc' = IF isPortInUse THEN pc ELSE [pc EXCEPT ![Mgr] = "ReadPid"]
    /\ UNCHANGED <<existingPid, inngest, attempts, trail, pidFile, lockFile, procs,
                   listener, spawned, mcmd, status, pidFromFile, orphanedPids,
                   killCalls, sockCount, unkillable, besidesManage>>

\* stopInngestServer: const pidFromFile = readPidFile(PID_FILE)
StopReadPid ==
    /\ mpc = "StopReadPid"
    /\ pidFromFile' = readPidFile
    /\ mpc' = "StopCheckPid"
    /\ UNCHANGED <<ensureVars, mcmd, status, orphanedPids, killCalls, sockCount,
                   unkillable, mlog, besidesManage>>

\* if (pidFromFile && isProcessRunning(pidFromFile))
StopCheckPid ==
    /\ mpc = "StopCheckPid"
    /\ LET live == pidFromFile # NoPid /\ isProcessRunning(pidFromFile)
       IN  /\ Log("pidAlive", live)
           /\ mpc' = IF live THEN "StopKillPid" ELSE "StopFind"
    /\ UNCHANGED <<ensureVars, mcmd, status, pidFromFile, orphanedPids, killCalls,
                   sockCount, unkillable, besidesManage>>

\* process.kill(pidFromFile, 'SIGKILL')
StopKillPid ==
    /\ mpc = "StopKillPid"
    /\ Kill(pidFromFile)
    /\ mpc' = "StopFind"
    /\ UNCHANGED <<ensureVars, mcmd, status, pidFromFile, orphanedPids, sockCount,
                   unkillable, besidesManage>>

\* const orphanedPids = findProcessesOnPort(inngestPort)
StopFind ==
    /\ mpc = "StopFind"
    /\ orphanedPids' = findProcessesArray
    /\ Log("foundPids", Range(findProcessesArray))
    /\ mpc' = "StopKillOrphans"
    /\ UNCHANGED <<ensureVars, mcmd, status, pidFromFile, killCalls, sockCount,
                   unkillable, besidesManage>>

\* one round of for (const pid of orphanedPids) { if (pid === pidFromFile)
\* continue; process.kill(pid, 'SIGKILL') }
StopKillOrphans ==
    /\ mpc = "StopKillOrphans"
    /\ IF orphanedPids = <<>>
       THEN /\ mpc' = "StopDelete"
            /\ Log("killsDone", TRUE)
            /\ UNCHANGED <<orphanedPids, killCalls>>
       ELSE /\ mpc' = "StopKillOrphans"
            /\ orphanedPids' = Tail(orphanedPids)
            /\ IF Head(orphanedPids) = pidFromFile
               THEN UNCHANGED <<killCalls, mlog>>
               ELSE Kill(Head(orphanedPids))
    /\ UNCHANGED <<ensureVars, mcmd, status, pidFromFile, sockCount, unkillable,
                   besidesManage>>

\* a clean-up that removes the PID file only when a process was stopped
StopDeleteIfStopped ==
    /\ mpc = "StopDelete"
    /\ pidFile' = IF mlog.stoppedAny THEN NoPid ELSE pidFile
    /\ Log("pidDeleted", TRUE)
    /\ mpc' = "StopVerify"
    /\ UNCHANGED <<pc, existingPid, inngest, attempts, trail, lockFile, procs,
                   listener, spawned, mcmd, status, pidFromFile, orphanedPids,
                   killCalls, sockCount, unkillable, besidesManage>>

\* deletePidFile(PID_FILE)
StopDelete ==
    /\ mpc = "StopDelete"
    /\ pidFile' = NoPid
    /\ Log("pidDeleted", TRUE)
    /\ mpc' = "StopVerify"
    /\ UNCHANGED <<pc, existingPid, inngest, attempts, trail, lockFile, procs,
                   listener, spawned, mcmd, status, pidFromFile, orphanedPids,
                   killCalls, sockCount, unkillable, besidesManage>>

\* await sleep(500); if (await isPortInUse(inngestPort)) console.warn(...);
\* stopInngestServer returns; restartInngestServer goes on to its pause
StopVerify ==
    /\ mpc = "StopVerify"
    /\ mlog' = [mlog EXCEPT !.warned = isPortInUse, !.stopReturned = TRUE]
    /\ mpc' = IF mcmd = "restart" THEN "Pause" ELSE "Done"
    /\ UNCHANGED <<ensureVars, mcmd, status, pidFromFile, orphanedPids, killCalls,
                   sockCount, unkillable, besidesManage>>

\* restartInngestServer: await sleep(1000); await startInngestServer(config)
Pause ==
    /\ mpc = "Pause"
    /\ mpc' = "StartReadPid"
    /\ UNCHANGED <<ensureVars, mcmd, status, pidFromFile, orphanedPids, killCalls,
                   sockCount, unkillable, mlog, besidesManage>>

\* a process that was sent SIGKILL and may be killed dies
KilledExits ==
    /\ \E p \in (Range(killCalls) \cap procs) \ unkillable :
          /\ procs' = procs \ {p}
          /\ listener' = IF listener = p THEN NoPid ELSE listener
    /\ UNCHANGED <<pc, existingPid, inngest, attempts, trail, pidFile, lockFile,
                   spawned, manageVars, besidesManage>>

\* the other CLI process reaches its releaseLock
OtherReleases ==
    /\ lockFile = OtherCli
    /\ lockFile' = NoLock
    /\ UNCHANGED <<pc, existingPid, inngest, attempts, trail, pidFile, procs,
                   listener, spawned, manageVars, besidesManage>>

InitManage ==
    /\ PortsAtRest
    /\ KillAtRest
    /\ DetectAtRest
    /\ AssignAtRest
    /\ LaterPartsAtRest
    /\ pc = [i \in Invokers |-> "Off"]
    /\ existingPid = [i \in Invokers |-> NoPid]
    /\ inngest = [i \in Invokers |-> NoPid]
    /\ attempts = [i \in Invokers |-> 0]
    /\ trail = [i \in Invokers |-> NoTrail]
    /\ pidFile \in {NoPid} \cup InitialPids
    /\ lockFile \in {NoLock, OtherCli}
    /\ procs \in SUBSET InitialPids
    /\ listener \in {NoPid} \cup procs
    /\ spawned = Cardinality(InitialPids)
    /\ mcmd \in Commands
    /\ mpc = "Begin"
    /\ status = NoStatus
    /\ pidFromFile = NoPid
    /\ orphanedPids = <<>>
    /\ killCalls = <<>>
    /\ sockCount \in {1, 2}
    /\ unkillable \in SUBSET procs
    /\ mlog = NoLog

NextManage ==
    \/ Dispatch
    \/ StatusRead \/ StatusCheck
    \/ StartReadPid \/ StartCheckPid \/ StartProbe
    \/ StopReadPid \/ StopCheckPid \/ StopKillPid \/ StopFind \/ StopKillOrphans
    \/ StopDelete \/ StopVerify \/ Pause
    \/ ReadPid(Mgr) \/ CheckRunning(Mgr) \/ DeleteStale(Mgr) \/ ProbePort(Mgr)
    \/ Lock1(Mgr) \/ Recheck(Mgr) \/ Lock2(Mgr)
    \/ SpawnOk(Mgr) \/ SpawnFail(Mgr) \/ WritePid(Mgr) \/ Health(Mgr)
    \/ Release(Mgr) \/ SpawnErrorEvent(Mgr)
    \/ ServiceBinds
    \/ KilledExits
    \/ OtherReleases

SpecManage == InitManage /\ [][NextManage]_vars

(***************************************************************************)
(* Two ensureInngestServer invocations and one stop command, side by side. *)
(***************************************************************************)
\* the invocations that run beside the stop command
BesideStop == {1, 2}

InitEnsureStop ==
    /\ PortsAtRest /\ KillAtRest /\ DetectAtRest /\ AssignAtRest
    /\ LaterPartsAtRest
    /\ pc = [i \in Invokers |-> IF i \in BesideStop THEN "ReadPid" ELSE "Waiting"]
    /\ existingPid = [i \in Invokers |-> NoPid]
    /\ inngest = [i \in Invokers |-> NoPid]
    /\ attempts = [i \in Invokers |-> 0]
    /\ trail = [i \in Invokers |-> NoTrail]
    /\ pidFile = NoPid
    /\ lockFile = NoLock
    /\ procs = {}
    /\ listener = NoPid
    /\ spawned = 0
    /\ mcmd = "stop"
    /\ mpc = "Begin"
    /\ status = NoStatus
    /\ pidFromFile = NoPid
    /\ orphanedPids = <<>>
    /\ killCalls = <<>>
    /\ sockCount = 1
    /\ unkillable = {}
    /\ mlog = NoLog

NextEnsureStop ==
    \/ Dispatch
    \/ StopReadPid \/ StopCheckPid \/ StopKillPid \/ StopFind \/ StopKillOrphans
    \/ StopDelete \/ StopVerify
    \/ KilledExits
    \/ Next

SpecEnsureStop == InitEnsureStop /\ [][NextEnsureStop]_vars

(***************************************************************************)
(* Configuration: loadConfig over the package.json of the project root.    *)
(* The sources hold two loadConfig functions: one takes devServer.basePort *)
(* and generates the pool, one takes the list devServer.ports; build says  *)
(* which of them the installed package runs.                               *)
(***************************************************************************)
PORT_POOL_SIZE == 128
DEFAULT_INNGEST_PORT == 8288
DEFAULT_CONFIG ==
    [ports |-> <<5001, 5002, 5003, 5004, 5005>>, inngestPort |-> 8288]

\* JSON values by their typeof
Undefined == [type |-> "undefined"]
Number(n) == [type |-> "number", value |-> n]
Array(a) == [type |-> "array", value |-> a]
Text == [type |-> "string"]

Builds == {"basePort", "ports"}
BasePortValues == {Undefined, Text, Number(3000), Number(65500), Number(0)}
PortListEntries == {5001, 70000}
PortListValues ==
    {Undefined} \cup
    {Array(a) : a \in UNION {[1 .. n -> PortListEntries] : n \in 0 .. MaxCfgPorts}}
InngestPortValues == {Undefined, Number(9000)}

\* package.json: unreadable (missing, or not JSON), without a devServer key,
\* or with one
PackageJsons ==
    {[kind |-> "unreadable"], [kind |-> "plain"]} \cup
    {[kind |-> "devServer", basePort |-> b, ports |-> l, inngestPort |-> i] :
        b \in BasePortValues, l \in PortListValues, i \in InngestPortValues}

\* loadConfig of config.ts:89-120
loadConfigBasePort(pkg) ==
    LET basePort == IF pkg.kind = "devServer" /\ pkg.basePort.type = "number"
                    THEN pkg.basePort.value ELSE DEFAULT_BASE_PORT
        inngestPort == IF pkg.kind = "devServer" /\ pkg.inngestPort.type = "number"
                       THEN pkg.inngestPort.value ELSE DEFAULT_INNGEST_PORT
    IN  [ports |-> generatePortPool(basePort, PORT_POOL_SIZE),
         inngestPort |-> inngestPort]

\* loadConfig of config.ts:215-242
loadConfigPortList(pkg) ==
    [ports |-> IF pkg.kind = "devServer" /\ pkg.ports.type = "array"
               THEN pkg.ports.value ELSE DEFAULT_CONFIG.ports,
     inngestPort |-> IF pkg.kind = "devServer" /\ pkg.inngestPort.type = "number"
                     THEN pkg.inngestPort.value ELSE DEFAULT_CONFIG.inngestPort]

loadConfig(b, pkg) ==
    IF b = "basePort" THEN loadConfigBasePort(pkg) ELSE loadConfigPortList(pkg)

\* a command starts: const config = loadConfig()
LoadConfig ==
    /\ config = NoConfig
    /\ config' = [kind |-> "loaded", devServer |-> loadConfig(build, packageJson)]
    /\ UNCHANGED <<build, packageJson, besidesConfig>>

\* the user edits package.json before running the command
EditPackageJson ==
    /\ config = NoConfig
    /\ \E pkg \in PackageJsons \ {packageJson} : packageJson' = pkg
    /\ UNCHANGED <<build, config, besidesConfig>>

InitConfig ==
    /\ PortsAtRest
    /\ EnsureAtRest
    /\ KillAtRest
    /\ DetectAtRest
    /\ AssignAtRest
    /\ ManageAtRest
    /\ ScriptAtRest
    /\ FilesAtRest
    /\ DevAtRest
    /\ CacheAtRest
    /\ build \in Builds
    /\ packageJson = [kind |-> "plain"]
    /\ config = NoConfig

NextConfig == LoadConfig \/ EditPackageJson

SpecConfig == InitConfig /\ [][NextConfig]_vars

(***************************************************************************)
(* Port choice of the workspace script: getAvailableDevPort with the       *)
(* .dev-port file. Texts (the environment variable, the file) are          *)
(* sequences of characters.                                                *)
(***************************************************************************)
PREDEFINED_PORTS == <<5001, 5002, 5003, 5004, 5005>>
NaN == 0 - 1

DigitChars == <<"0", "1", "2", "3", "4", "5", "6", "7", "8", "9">>
IsDigit(c) == \E i \in 1 .. 10 : DigitChars[i] = c
DigitValue(c) == (CHOOSE i \in 1 .. 10 : DigitChars[i] = c) - 1

RECURSIVE ParseDigits(_, _, _)
ParseDigits(text, i, acc) ==
    IF i > Len(text) \/ ~IsDigit(text[i]) THEN acc
    ELSE ParseDigits(text, i + 1, acc * 10 + DigitValue(text[i]))

\* parseInt(text, 10) of a text without sign or leading blanks: the value of
\* the leading digits, NaN without one
parseInt(text) ==
    IF Len(text) = 0 \/ ~IsDigit(text[1]) THEN NaN ELSE ParseDigits(text, 1, 0)

isNaN(n) == n = NaN

RECURSIVE Digits(_)
Digits(n) ==
    IF n < 10 THEN <<DigitChars[n + 1]>>
    ELSE Append(Digits(n \div 10), DigitChars[(n % 10) + 1])

\* port.toString()
toString(n) == IF isNaN(n) THEN <<"N", "a", "N">> ELSE Digits(n)

\* the values of process.env.PORT: unset, 8080, 70000, abc, 80x
PortTexts ==
    {<<>>, <<"8", "0", "8", "0">>, <<"7", "0", "0", "0", "0">>,
     <<"a", "b", "c">>, <<"8", "0", "x">>}

\* readPortFromFile: the number in the file, NaN standing for null
readPortFromFile(file) == IF file = <<>> THEN NaN ELSE parseInt(file)

\* a value the && of getAvailableDevPort takes as true
Truthy(n) == ~isNaN(n) /\ n # 0

\* getHashBasedPort of the script when PORT is not set
scriptHashPort == PREDEFINED_PORTS[(rootHash % Len(PREDEFINED_PORTS)) + 1]

Returned(port, file) == [kind |-> "port", out |-> port, file |-> file]
Thrown(file) == [kind |-> "threw", out |-> NaN, file |-> file]

\* getAvailableDevPort with PORT = env, the port file holding file and the
\* ports of busy taken: what it returns and what the port file holds then.
\* isPortAvailable listens on the port, which throws for a port above 65535.
getAvailableDevPort(env, file, busy) ==
    IF env # <<>>
    THEN Returned(parseInt(env), toString(parseInt(env)))
    ELSE LET cachedPort == readPortFromFile(file)
             preferredPort == scriptHashPort
             free == {i \in 1 .. Len(PREDEFINED_PORTS) : PREDEFINED_PORTS[i] \notin busy}
         IN  IF Truthy(cachedPort) /\ cachedPort > MAX_PORT THEN Thrown(file)
             ELSE IF Truthy(cachedPort) /\ cachedPort \notin busy
                  THEN Returned(cachedPort, file)
             ELSE IF preferredPort \notin busy
                  THEN Returned(preferredPort, toString(preferredPort))
             ELSE IF free = {} THEN Thrown(file)
             ELSE LET first == CHOOSE i \in free : \A j \in free : i <= j
                  IN  Returned(PREDEFINED_PORTS[first], toString(PREDEFINED_PORTS[first]))

\* the ports other processes hold when the script runs: none, the first, the
\* first three, all
BusyChoices == {{}, {5001}, {5001, 5002, 5003}, Range(PREDEFINED_PORTS)}

\* one run of the script asks for its port
GetAvailableDevPort ==
    /\ \E busy \in BusyChoices :
          LET call == getAvailableDevPort(portEnv, portFile, busy)
          IN  /\ devPort' = [kind |-> call.kind, out |-> call.out, env |-> portEnv,
                             fileBefore |-> portFile, busy |-> busy]
              /\ portFile' = call.file
    /\ wtConfig' = NoDevPort
    /\ UNCHANGED <<portEnv, rootHash, besidesScript>>

\* the values of process.env.DEV_PORT: unset, 3000
DevPortTexts == {<<>>, <<"3", "0", "0", "0">>}

\* getWorktreeConfig of the script: devPort = process.env.DEV_PORT ||
\* process.env.PORT || readPortFromFile() || getHashBasedPort(). from names
\* the operand the port came from; an environment text is the port as it is
\* (text), a cached or hash-based port is a number (port).
getWorktreeConfig(dev, env, file) ==
    IF dev # <<>> THEN [from |-> "DEV_PORT", text |-> dev, port |-> NaN]
    ELSE IF env # <<>> THEN [from |-> "PORT", text |-> env, port |-> NaN]
    ELSE IF Truthy(readPortFromFile(file))
    THEN [from |-> "file", text |-> <<>>, port |-> readPortFromFile(file)]
    ELSE [from |-> "hash", text |-> <<>>, port |-> scriptHashPort]

\* one run of the script asks for its configuration (--config), whatever
\* ports other processes hold at that moment
GetWorktreeConfig ==
    /\ \E dev \in DevPortTexts, busy \in BusyChoices :
          LET call == getWorktreeConfig(dev, portEnv, portFile)
          IN  wtConfig' = [kind |-> "config", from |-> call.from, text |-> call.text,
                           port |-> call.port, busy |-> busy]
    /\ devPort' = NoDevPort
    /\ UNCHANGED <<portEnv, portFile, rootHash, besidesScript>>

\* the environment of the next run differs
SetPortEnv ==
    /\ \E e \in PortTexts \ {portEnv} : portEnv' = e
    /\ UNCHANGED <<portFile, rootHash, devPort, wtConfig, besidesScript>>

InitScript ==
    /\ PortsAtRest
    /\ EnsureAtRest
    /\ KillAtRest
    /\ DetectAtRest
    /\ AssignAtRest
    /\ ManageAtRest
    /\ ConfigAtRest
    /\ FilesAtRest
    /\ DevAtRest
    /\ CacheAtRest
    /\ portEnv = <<>>
    /\ portFile = <<>>
    /\ rootHash \in HashNums
    /\ devPort = NoDevPort
    /\ wtConfig = NoDevPort

NextScript == GetAvailableDevPort \/ SetPortEnv \/ GetWorktreeConfig

SpecScript == InitScript /\ [][NextScript]_vars

(***************************************************************************)
(* Writes to the singleton files, with a reader of the file being written. *)
(* A text of <<>> is a file that does not exist or is empty; both read as  *)
(* "no value".                                                             *)
(***************************************************************************)
\* the PIDs and the port written
FilePids == {41, 42}
FilePorts == {5001, 5002}

\* who writes which file: writePidFile of wt-dev (through atomicWriteSync),
\* writePortToFile and writePidFile of the workspace script
Writers ==
    {[writer |-> "atomicWriteSync", target |-> "wt-dev-inngest.pid", value |-> v] :
        v \in FilePids} \cup
    {[writer |-> "writePortToFile", target |-> ".dev-port", value |-> v] :
        v \in FilePorts} \cup
    {[writer |-> "writePidFile", target |-> "flowt-inngest.pid", value |-> v] :
        v \in FilePids}

Writing == fw.writer # "none" /\ fw.at # "done"

\* a writer is called
BeginWrite ==
    /\ ~Writing
    /\ \E w \in Writers :
          /\ fw' = [writer |-> w.writer, target |-> w.target,
                    text |-> toString(w.value),
                    at |-> IF w.writer = "writePidFile" THEN "open" ELSE "temp"]
          /\ prevText' = files[w.target]
    /\ seen' = NotSeen
    /\ UNCHANGED <<files, tempFile, besidesFiles>>

\* fs.writeFileSync(tempPath, content)
WriteTemp ==
    /\ Writing /\ fw.at = "temp"
    /\ tempFile' = fw.text
    /\ fw' = [fw EXCEPT !.at = "rename"]
    /\ UNCHANGED <<files, prevText, seen, besidesFiles>>

\* fs.renameSync(tempPath, filePath)
Rename ==
    /\ Writing /\ fw.at = "rename"
    /\ files' = [files EXCEPT ![fw.target] = tempFile]
    /\ tempFile' = <<>>
    /\ fw' = [fw EXCEPT !.at = "done"]
    /\ UNCHANGED <<prevText, seen, besidesFiles>>

\* renameSync fails: the catch block unlinks the temporary file
RenameFails ==
    /\ Writing /\ fw.at = "rename"
    /\ tempFile' = <<>>
    /\ fw' = [fw EXCEPT !.at = "done", !.text = prevText]
    /\ UNCHANGED <<files, prevText, seen, besidesFiles>>

\* fs.writeFileSync(PID_FILE, ..) opens the file itself for writing, which
\* truncates it
OpenTruncate ==
    /\ Writing /\ fw.at = "open"
    /\ files' = [files EXCEPT ![fw.target] = <<>>]
    /\ fw' = [fw EXCEPT !.at = "write"]
    /\ UNCHANGED <<tempFile, prevText, seen, besidesFiles>>

\* .. and then writes the text into it
WriteInPlace ==
    /\ Writing /\ fw.at = "write"
    /\ files' = [files EXCEPT ![fw.target] = fw.text]
    /\ fw' = [fw EXCEPT !.at = "done"]
    /\ UNCHANGED <<tempFile, prevText, seen, besidesFiles>>

\* another process reads the file that is being written (readPidFile,
\* readPortFromFile)
ReadDuringWrite ==
    /\ Writing
    /\ seen' = [read |-> TRUE, text |-> files[fw.target]]
    /\ UNCHANGED <<files, tempFile, fw, prevText, besidesFiles>>

InitFiles ==
    /\ PortsAtRest
    /\ EnsureAtRest
    /\ KillAtRest
    /\ DetectAtRest
    /\ AssignAtRest
    /\ ManageAtRest
    /\ ConfigAtRest
    /\ ScriptAtRest
    /\ DevAtRest
    /\ CacheAtRest
    /\ FilesAtRest

NextFiles ==
    \/ BeginWrite \/ WriteTemp \/ Rename \/ RenameFails
    \/ OpenTruncate \/ WriteInPlace \/ ReadDuringWrite

SpecFiles == InitFiles /\ [][NextFiles]_vars

(***************************************************************************)
(* The dev command of the CLI: main, startDevServer and stopDevServer,     *)
(* with killProcessesOnPort as modelled above running inside it.           *)
(***************************************************************************)
DevFlags == {"start", "force", "stop"}
\* getWorktreeConfig returns, throws PortExhaustedError, or throws otherwise
PoolStates == {"ok", "exhausted", "error"}
\* exit codes of the spawned pnpm process
ChildExitCodes == {0, 2}

\* process.exit(code)
Exit(code) ==
    /\ dpc' = "Exited"
    /\ exitCode' = code

\* exit codes that report a failed termination as success
ExitCodeOfKillLenient ==
    IF killResult = "threw" THEN 1 ELSE 0

\* what the command does with the outcome of killProcessesOnPort: 0 and 1
\* are exit codes, NoExit stands for going on
ExitCodeOfKill ==
    IF killResult = "threw" THEN 1
    ELSE IF dflag = "stop" THEN (IF killResult = "true" THEN 0 ELSE 1)
    ELSE IF killResult = "true" THEN NoExit ELSE 1

\* const wtConfig = getWorktreeConfigOrExit(cfg): PortExhaustedError exits
\* with 1, any other error is rethrown and reaches the catch of main
DevGetConfig ==
    /\ dpc = "Begin"
    /\ IF poolState = "ok"
       THEN dpc' = "Probe" /\ UNCHANGED exitCode
       ELSE Exit(1)
    /\ UNCHANGED <<dflag, poolState, dlog, killVars, besidesDev>>

\* a start that goes on although the port is in use and no force was asked
DevProbeIgnoringUse ==
    /\ dpc = "Probe"
    /\ dlog' = [dlog EXCEPT !.portInUse = isKillPortInUse]
    /\ IF dflag = "stop" /\ ~isKillPortInUse THEN Exit(0) /\ UNCHANGED kpc
       ELSE IF dflag = "start" \/ ~isKillPortInUse
       THEN dpc' = "Serve" /\ UNCHANGED <<exitCode, kpc>>
       ELSE /\ dpc' = "Killing"
            /\ kpc' = "Start"
            /\ UNCHANGED exitCode
    /\ UNCHANGED <<dflag, poolState, kAttempt, targetPids, pids, retry,
                   killResult, alive, listening, connected, foreign, signalled,
                   rebound, besidesDev>>

\* const portInUse = await isPortInUse(wtConfig.port), and the branches on it
\* up to the call of killProcessesOnPort
DevProbe ==
    /\ dpc = "Probe"
    /\ dlog' = [dlog EXCEPT !.portInUse = isKillPortInUse]
    /\ IF ~isKillPortInUse
       THEN /\ IF dflag = "stop" THEN Exit(0)
               ELSE dpc' = "Serve" /\ UNCHANGED exitCode
            /\ UNCHANGED kpc
       ELSE IF dflag = "start"
            THEN Exit(0) /\ UNCHANGED kpc
            ELSE /\ dpc' = "Killing"
                 /\ kpc' = "Start"
                 /\ UNCHANGED exitCode
    /\ UNCHANGED <<dflag, poolState, kAttempt, targetPids, pids, retry,
                   killResult, alive, listening, connected, foreign, signalled,
                   rebound, besidesDev>>

\* killProcessesOnPort has ended: stopDevServer returns success and main
\* exits with success ? 0 : 1; startDevServer exits with 1 on failure and
\* goes on otherwise; an exception reaches the catch of main
DevKillEnds ==
    /\ dpc = "Killing"
    /\ kpc = "Done"
    /\ dlog' = [dlog EXCEPT !.killed = TRUE]
    /\ IF ExitCodeOfKill = NoExit
       THEN dpc' = "Serve" /\ UNCHANGED exitCode
       ELSE Exit(ExitCodeOfKill)
    /\ UNCHANGED <<dflag, poolState, killVars, besidesDev>>

\* await ensureInngestServer(cfg): it returns, or its exception reaches the
\* catch of main
DevEnsure ==
    /\ dpc = "Serve"
    /\ \E threw \in BOOLEAN :
          IF threw THEN Exit(1) /\ UNCHANGED dlog
          ELSE /\ dpc' = "Launch"
               /\ dlog' = [dlog EXCEPT !.ensured = TRUE]
               /\ UNCHANGED exitCode
    /\ UNCHANGED <<dflag, poolState, killVars, besidesDev>>

\* const devProcess = spawn('pnpm', nextArgs, ..), and the handlers
DevLaunch ==
    /\ dpc = "Launch"
    /\ dpc' = "Serving"
    /\ dlog' = [dlog EXCEPT !.launched = TRUE]
    /\ UNCHANGED <<dflag, poolState, exitCode, killVars, besidesDev>>

\* devProcess.on('exit'): a code other than 0 is passed on; after code 0 the
\* command has nothing left to wait for and ends with 0
DevChildExits ==
    /\ dpc = "Serving"
    /\ \E code \in ChildExitCodes : Exit(code)
    /\ UNCHANGED <<dflag, poolState, dlog, killVars, besidesDev>>

\* SIGINT or SIGTERM: handleShutdown
DevSignal ==
    /\ dpc = "Serving"
    /\ dlog' = [dlog EXCEPT !.shutdown = TRUE]
    /\ Exit(0)
    /\ UNCHANGED <<dflag, poolState, killVars, besidesDev>>

InitDev ==
    /\ PortsAtRest
    /\ EnsureAtRest
    /\ DetectAtRest
    /\ AssignAtRest
    /\ ManageAtRest
    /\ ConfigAtRest
    /\ ScriptAtRest
    /\ FilesAtRest
    /\ CacheAtRest
    /\ kpc = "Idle"
    /\ kAttempt = 0
    /\ targetPids = {}
    /\ pids = {}
    /\ retry = 0
    /\ killResult = "none"
    /\ alive = KPids
    /\ listening \in SUBSET KPids
    /\ connected \in SUBSET (KPids \ listening)
    /\ foreign \in SUBSET KPids
    /\ signalled = {}
    /\ rebound = {}
    /\ dflag \in DevFlags
    /\ poolState \in PoolStates
    /\ dpc = "Begin"
    /\ dlog = NoDevLog
    /\ exitCode = NoExit

NextDev ==
    \/ DevGetConfig \/ DevProbe \/ DevKillEnds \/ DevEnsure \/ DevLaunch
    \/ DevChildExits \/ DevSignal
    \/ KStart \/ KLoopHead \/ KDoubleCheck \/ KKill
    \/ KLoopWaitProbe \/ KLoopWaitFind
    \/ KFallback \/ KFallbackKill
    \/ KLastWaitProbe \/ KLastWaitFind
    \/ ProcExits \/ ProcBinds

SpecDev == InitDev /\ [][NextDev]_vars

(***************************************************************************)
(* Properties of the port allocator.                                       *)
(***************************************************************************)
IsMap(r) == r.kind = "Map"
Injective(f) == \A a, b \in DOMAIN f : a # b => f[a] # f[b]
AppendStep == lastOp' = "append" /\ Len(worktrees') = Len(worktrees) + 1
RemoveStep == lastOp' = "remove" /\ Len(worktrees') + 1 = Len(worktrees)
\* some worktree holds a port other than its primary candidate
RetriedSome ==
    /\ IsMap(result)
    /\ \E w \in DOMAIN result.assignments :
          result.assignments[w] # computeHashPort(w, ports)

\* C2: whenever the pool has at least as many ports as there are worktrees,
\* resolveAllPorts returns an assignment that gives every listed worktree a
\* port of the pool, the ports pairwise distinct.
C2_UniqueWhenPoolSuffices ==
    Len(worktrees) <= Len(ports) =>
        /\ IsMap(result)
        /\ DOMAIN result.assignments = Range(worktrees)
        /\ Injective(result.assignments)
        /\ \A w \in Range(worktrees) : result.assignments[w] \in Range(ports)

\* C3: when resolution succeeded and one worktree is removed, resolving the
\* remaining list from scratch gives every surviving worktree the port it had.
C3_StableUnderRemoval ==
    [][(RemoveStep /\ IsMap(result)) =>
          /\ IsMap(result')
          /\ \A w \in Range(worktrees') :
                result'.assignments[w] = result.assignments[w]]_vars

C5_ExhaustionRaises ==
    Len(worktrees) > Len(ports) =>
        result = PortExhaustedError(Len(worktrees), Len(ports))

\* three worktrees were resolved against a pool of two ports
C5_Witness ==
    /\ Len(worktrees) = 3
    /\ Len(ports) = 2
    /\ result.kind = "PortExhaustedError"

\* C6: whenever an assignment is returned for a non-empty list, the first
\* worktree in creation order holds pool[0] and no other worktree does.
C6_ReservedBasePort ==
    (IsMap(result) /\ Len(worktrees) >= 1) =>
        /\ result.assignments[worktrees[1]] = ports[1]
        /\ \A i \in 2 .. Len(worktrees) : result.assignments[worktrees[i]] # ports[1]

(***************************************************************************)
(* Worktree list cache of git-utils.                                       *)
(***************************************************************************)
WORKTREE_PREFIX == "worktree "
CACHE_TTL_MS == 5000
\* the clock advances in steps of half the TTL, MaxTicks times at most
MaxTicks == 3
TickMs == CACHE_TTL_MS \div 2
\* the repository has up to this many worktrees
MaxListed == 2

\* the paths git lists, in creation order
ListedPaths == <<"/repo", "/repo-wt1", "/repo-wt2", "/repo-wt3">>

\* output of git worktree list --porcelain for n worktrees, line by line:
\* each worktree gives a "worktree <path>" line, a HEAD line and a branch line
porcelain(n) ==
    [j \in 1 .. 3 * n |->
        IF j % 3 = 1 THEN [prefix |-> WORKTREE_PREFIX, rest |-> ListedPaths[(j + 2) \div 3]]
        ELSE IF j % 3 = 2 THEN [prefix |-> "HEAD ", rest |-> "abc"]
        ELSE [prefix |-> "branch ", rest |-> "refs/heads/main"]]

\* output.split('\n').filter(startsWith(WORKTREE_PREFIX)).map(slice)
parseWorktrees(output) ==
    LET hasPrefix(line) == line.prefix = WORKTREE_PREFIX
        lines == SelectSeq(output, hasPrefix)
    IN  [k \in 1 .. Len(lines) |-> lines[k].rest]

\* a cache check that still takes a list of exactly the TTL's age
cacheHitInclusive(cwd) ==
    /\ worktreeCache.cached
    /\ worktreeCache.cwd = cwd
    /\ now - worktreeCache.timestamp <= CACHE_TTL_MS

\* worktreeCache && worktreeCache.cwd === cwd
\*   && now - worktreeCache.timestamp < CACHE_TTL_MS
cacheHit(cwd) ==
    /\ worktreeCache.cached
    /\ worktreeCache.cwd = cwd
    /\ now - worktreeCache.timestamp < CACHE_TTL_MS

\* listWorktrees(cwd), git succeeding (ok) or failing: what it returns, what
\* the cache is then, and whether git was run
listWorktrees(cwd, ok) ==
    IF cacheHit(cwd)
    THEN [out |-> worktreeCache.worktrees, cache |-> worktreeCache,
          queried |-> FALSE, failed |-> FALSE]
    ELSE IF ok
    THEN LET parsed == parseWorktrees(porcelain(gitWorktrees))
         IN  [out |-> parsed,
              cache |-> [cached |-> TRUE, worktrees |-> parsed,
                         timestamp |-> now, cwd |-> cwd],
              queried |-> TRUE, failed |-> FALSE]
    ELSE [out |-> <<>>, cache |-> worktreeCache, queried |-> TRUE, failed |-> TRUE]

\* a list was cached for cwd less than the TTL ago, and the cache was not
\* cleared since
CachedRecently(cwd) ==
    /\ history.at[cwd] # NeverCached
    /\ now - history.at[cwd] < CACHE_TTL_MS

\* one call of listWorktrees
ListWorktrees ==
    /\ \E cwd \in Dirs, ok \in BOOLEAN :
          LET call == listWorktrees(cwd, ok)
          IN  /\ ok \/ call.queried
              /\ worktreeCache' = call.cache
              /\ history' = IF call.queried /\ ~call.failed
                            THEN [at |-> [history.at EXCEPT ![cwd] = now], last |-> cwd]
                            ELSE history
              /\ wtCall' = [kind |-> "call", cwd |-> cwd, queried |-> call.queried,
                            failed |-> call.failed, out |-> call.out,
                            recent |-> CachedRecently(cwd),
                            latest |-> history.last = cwd,
                            cachedList |-> worktreeCache.worktrees,
                            listed |-> parseWorktrees(porcelain(gitWorktrees)),
                            cacheKept |-> call.cache = worktreeCache]
    /\ UNCHANGED <<now, gitWorktrees, besidesCache>>

\* clearWorktreeCache(): worktreeCache = null
ClearWorktreeCache ==
    /\ worktreeCache # NoCache
    /\ worktreeCache' = NoCache
    /\ history' = NoHistory
    /\ UNCHANGED <<now, gitWorktrees, wtCall, besidesCache>>

\* time passes
Tick ==
    /\ now < MaxTicks * TickMs
    /\ now' = now + TickMs
    /\ UNCHANGED <<worktreeCache, gitWorktrees, history, wtCall, besidesCache>>

\* git worktree add, by whoever
GitWorktreeAdd ==
    /\ gitWorktrees < MaxListed
    /\ gitWorktrees' = gitWorktrees + 1
    /\ UNCHANGED <<worktreeCache, now, history, wtCall, besidesCache>>

InitCache ==
    /\ PortsAtRest /\ EnsureAtRest /\ KillAtRest /\ DetectAtRest /\ AssignAtRest
    /\ ManageAtRest
    /\ ConfigAtRest /\ ScriptAtRest /\ FilesAtRest /\ DevAtRest
    /\ CacheAtRest

NextCache == ListWorktrees \/ ClearWorktreeCache \/ Tick \/ GitWorktreeAdd

SpecCache == InitCache /\ [][NextCache]_vars

(***************************************************************************)
(* Properties of the singleton service manager.                            *)
(***************************************************************************)
Finished(i) == pc[i] \in {"Done", "Threw"}

\* C1: starting with no process, no PID file and no lock file, whatever the
\* interleaving of concurrent ensureInngestServer invocations, at most one
\* shared-service process is live at any time (a second one is never spawned
\* beside a live one).
C1_SingletonUnderConcurrentEnsure == Cardinality(procs) <= 1

\* C8: an invocation that found the PID file naming a live process has
\* returned without spawning, without attempting the lock and without deleting
\* or writing the PID file.
C8_FastPathHasNoEffect ==
    \A i \in Invokers :
        trail[i].sawLive =>
            /\ pc[i] = "Done"
            /\ inngest[i] = NoPid
            /\ ~trail[i].lockTried
            /\ ~trail[i].pidTouched

\* one invocation started the service, another found it running through the
\* PID file and returned; the one process is still the only one
C8_Witness ==
    \E i, j \in Invokers :
        /\ trail[i].sawLive /\ pc[i] = "Done"
        /\ inngest[j] # NoPid /\ procs = {inngest[j]}

\* C9: an invocation that has returned or thrown does not own the lock file,
\* whether it acquired the lock on its first or its second attempt and whether
\* it ended normally, on a health-check timeout or on a failed spawn.
C9_LockReleasedOnReturn == \A i \in Invokers : Finished(i) => lockFile # i

\* one invocation acquired the lock at once and its spawn failed; another
\* acquired it on the second attempt and its health check timed out
C9_Witness ==
    \E i, j \in Invokers :
        /\ pc[i] = "Threw" /\ trail[i].acquired = "first"
        /\ pc[j] = "Done" /\ trail[j].acquired = "second"
        /\ inngest[j] # NoPid /\ ~trail[j].healthy

C7_RaceSafeKill ==
    /\ rebound \cap signalled = {}
    /\ killResult = "true" => rebound \cap listening = {}

(***************************************************************************)
(* Properties of the port inspection.                                      *)
(***************************************************************************)
\* C11: on every inspection path (ss, lsof, netstat) findProcessesOnPort
\* returns only processes listening on the port; a process that merely holds
\* an established connection to it is not in the result.
C11_OnlyListeners ==
    \A port \in SockPorts :
        /\ findProcessesOnPortOf(port) \subseteq ListeningOn(port)
        /\ (ConnectedTo(port) \ ListeningOn(port)) \cap findProcessesOnPortOf(port) = {}

\* a call returned the listener of a port while another process held an
\* established connection to that port
C11_Witness ==
    /\ queried # 0
    /\ foundPids # {}
    /\ foundPids = findProcessesOnPortOf(queried)
    /\ ConnectedTo(queried) \ ListeningOn(queried) # {}

HeldBefore(i) == {result.assignments[worktrees[j]] : j \in 1 .. (i - 1)}
\* the candidate of attempt a: the primary hash for 0, the a-th secondary hash
Candidate(i, a) ==
    IF a = 0 THEN computeHashPort(worktrees[i], ports)
    ELSE computeSecondaryHashPort(worktrees[i], ports, a)
\* the attempts of position i whose candidate no earlier worktree holds
FreeAttempts(i) ==
    {a \in 0 .. (maxAttempts(ports) - 1) : Candidate(i, a) \notin HeldBefore(i)}
\* position i holds the candidate of its lowest-numbered free attempt
HoldsLowestFree(i) ==
    /\ FreeAttempts(i) # {}
    /\ LET a == CHOOSE x \in FreeAttempts(i) : \A y \in FreeAttempts(i) : x <= y
       IN  result.assignments[worktrees[i]] = Candidate(i, a)
SamePrimary(i, j) == Candidate(i, 0) = Candidate(j, 0)

C14_StatusDetermination ==
    [][/\ StatusCheck =>
             /\ (pidFromFile = NoPid) => (~status'.running /\ ~status'.stale)
             /\ (pidFromFile # NoPid /\ pidFromFile \in procs) =>
                    (status'.running /\ status'.pid = pidFromFile /\ ~status'.stale)
             /\ (pidFromFile # NoPid /\ pidFromFile \notin procs) =>
                    (~status'.running /\ status'.stale)
       /\ (mcmd = "status" /\ (StatusRead \/ StatusCheck)) =>
             UNCHANGED <<pidFile, lockFile>>]_vars

\* a status command found the PID file stale, and the file is still there
C14_Witness ==
    /\ mcmd = "status" /\ mpc = "Done"
    /\ status.stale
    /\ pidFile = pidFromFile /\ pidFile # NoPid

\* invocation i read a PID file that names a dead process
FoundStale(i) == existingPid[i] # NoPid /\ pc[i] # "CheckRunning"
\* invocation i is past the purge step
PastPurge(i) ==
    \/ trail[i].lockTried
    \/ inngest[i] # NoPid
    \/ pc[i] \in {"ProbePort", "Lock1", "Recheck", "Lock2", "Spawn", "WritePid",
                  "Health", "Release"}

C16_OrphanMeansRunning ==
    /\ \A i \in Invokers :
          trail[i].portBusy =>
              /\ pc[i] = "Done"
              /\ ~trail[i].lockTried
              /\ inngest[i] = NoPid
              /\ ~trail[i].pidWritten
    /\ mlog.startPortBusy =>
          /\ mpc = "Done"
          /\ pc[Mgr] = "Off"
          /\ spawned = Cardinality(InitialPids)

\* no live PID is recorded, an orphan holds the port: ensureInngestServer
\* has returned on its port probe
C16_Witness ==
    /\ mcmd = "ensure"
    /\ trail[Mgr].portBusy /\ pc[Mgr] = "Done"
    /\ ~trail[Mgr].sawLive
    /\ listener # NoPid /\ listener # pidFile

\* stopInngestServer is past its two kill steps (and a restart has not yet
\* read the PID file again for its start)
KillsDone == mcmd \in {"stop", "restart"} /\ mlog.killsDone /\ ~mlog.startChecked
\* the kill set: the PID of the PID file if it was alive, and the listeners
KillSet == (IF mlog.pidAlive THEN {pidFromFile} ELSE {}) \cup mlog.foundPids

\* C18: stopInngestServer has called process.kill(pid, 'SIGKILL') for exactly
\* the processes of the kill set, once each.
C18_StopKillSet ==
    KillsDone =>
        /\ Range(killCalls) = KillSet
        /\ \A a, b \in 1 .. Len(killCalls) : a # b => killCalls[a] # killCalls[b]

C20_RestartOrdering ==
    (mcmd = "restart"
         /\ (mlog.startChecked \/ pc[Mgr] # "Off" \/ inngest[Mgr] # NoPid
                \/ mpc \in {"StartReadPid", "StartCheckPid", "StartProbe", "InEnsure"})) =>
        /\ mlog.killsDone
        /\ mlog.pidDeleted
        /\ mlog.stopReturned

\* a restart killed the recorded process and spawned a new one
C20_Witness ==
    /\ mcmd = "restart"
    /\ mlog.pidAlive
    /\ killCalls # <<>>
    /\ inngest[Mgr] # NoPid
    /\ pidFile = inngest[Mgr]

(***************************************************************************)
(* Lock contention in ensureInngestServer.                                 *)
(***************************************************************************)
\* invocation i failed to acquire the lock at its first attempt
FirstLockFailed(i) == trail[i].lockTries >= 1 /\ trail[i].acquired # "first"

\* C17: an invocation whose first lock attempt failed returns without
\* spawning when its health re-probe succeeds, otherwise tries the lock once
\* more and no further; when that fails too it returns normally, having
\* spawned nothing, written no PID file and never owned the lock file.
C17_ContentionIsNotAnError ==
    \A i \in Invokers :
        FirstLockFailed(i) =>
            /\ trail[i].lockTries <= 2
            /\ trail[i].recheckHealthy =>
                   /\ pc[i] = "Done"
                   /\ trail[i].lockTries = 1
                   /\ inngest[i] = NoPid
            /\ (Finished(i) /\ trail[i].acquired = "no") =>
                   /\ pc[i] = "Done"
                   /\ ~trail[i].threw
                   /\ inngest[i] = NoPid
                   /\ ~trail[i].pidWritten
                   /\ lockFile # i

\* one invocation failed both lock attempts and returned while the other
\* still held the lock
C17_Witness ==
    \E i, j \in Invokers :
        /\ trail[i].lockTries = 2 /\ trail[i].acquired = "no" /\ pc[i] = "Done"
        /\ lockFile = j /\ pc[j] = "Health"

(***************************************************************************)
(* Further properties of the process terminator.                           *)
(***************************************************************************)
\* C21: killProcessesOnPort never ends with an exception; a kill that is
\* rejected for another reason than ESRCH ends in the result false.
C21_KillNeverThrows == killResult # "threw"

InLoop == kpc \in {"LoopHead", "DoubleCheck", "KillLoop", "WaitProbe", "WaitFind"}
InFallback == kpc \in {"Fallback", "FallbackKill", "LastProbe", "LastFind"}

C30_NeverKillsConnected == signalled \cap connected = {}

NoWorktreeOfProject ==
    Len(worktrees) = 0 \/ findContainingWorktree(projectRoot, worktrees) = {}

\* C25, as stated: whenever the enumerator reports zero worktrees or the
\* project path is inside none of them, getHashBasedPort returns pool[0].
C25_FallbackAlways ==
    \A call \in {firstCall, secondCall} \ {NoCall} :
        NoWorktreeOfProject => call.out = PortOutcome(ports[1])

\* C25: when no valid PORT override is in force and the enumerator reports
\* zero worktrees or the project path is inside none of them,
\* getHashBasedPort returns pool[0].
C25_FallbackToFirstPort ==
    \A call \in {firstCall, secondCall} \ {NoCall} :
        (NoWorktreeOfProject /\ ~call.override) =>
            call.out = PortOutcome(ports[1])

\* a call without override returned pool[0] for a project outside the
\* worktrees that exist, from a pool with other members
C25_Witness ==
    /\ firstCall # NoCall
    /\ ~firstCall.override
    /\ Len(worktrees) > 0
    /\ findContainingWorktree(projectRoot, worktrees) = {}
    /\ Len(ports) > 1
    /\ firstCall.out = PortOutcome(ports[1])

(***************************************************************************)
(* Properties of the configuration.                                        *)
(***************************************************************************)
\* C27: every pool loadConfig produces is non-empty and holds only port
\* numbers in 1..65535.
C27_PoolInvariant ==
    config.kind = "loaded" =>
        /\ Len(config.devServer.ports) > 0
        /\ \A i \in 1 .. Len(config.devServer.ports) :
              /\ config.devServer.ports[i] >= MIN_PORT
              /\ config.devServer.ports[i] <= MAX_PORT

\* C29: from a package.json without devServer configuration loadConfig
\* yields the pool 5001..5128 and the shared-service port 8288.
C29_DefaultPool ==
    (config.kind = "loaded" /\ packageJson.kind # "devServer") =>
        /\ config.devServer.ports = generatePortPool(DEFAULT_BASE_PORT, PORT_POOL_SIZE)
        /\ config.devServer.inngestPort = DEFAULT_INNGEST_PORT

(***************************************************************************)
(* Properties of the port choice of the workspace script.                  *)
(***************************************************************************)
\* a text that is an integer in 1..65535
ValidPortText(text) ==
    /\ Len(text) > 0
    /\ \A i \in 1 .. Len(text) : IsDigit(text[i])
    /\ parseInt(text) >= MIN_PORT
    /\ parseInt(text) <= MAX_PORT

\* C24: with PORT set to an integer in 1..65535 the port lookup returns that
\* port; with PORT set to anything else it returns what it returns when PORT
\* is not set, and does not throw because of it.
C24_ExplicitOverride ==
    (devPort.kind # "none" /\ devPort.env # <<>>) =>
        IF ValidPortText(devPort.env)
        THEN devPort.kind = "port" /\ devPort.out = parseInt(devPort.env)
        ELSE LET unset == getAvailableDevPort(<<>>, devPort.fileBefore, devPort.busy)
             IN  devPort.kind = unset.kind /\ devPort.out = unset.out

(***************************************************************************)
(* Properties of the writes to the singleton files.                        *)
(***************************************************************************)
\* C26: every write to a PID file or to the port file goes to a temporary
\* file that is then renamed, and whoever reads the file during the write
\* reads the text it had before or the text being written.
C26_AtomicFileWrites ==
    /\ fw.writer # "none" => fw.at \in {"temp", "rename", "done"}
    /\ seen.read => seen.text \in {prevText, fw.text}

(***************************************************************************)
(* Properties of the dev command.                                          *)
(***************************************************************************)
\* C28: the dev command exits with 1 on pool exhaustion and when
\* killProcessesOnPort failed (stop or forced restart), and with 0 when the
\* server runs already and no force was asked for, and when the stop
\* succeeded.
C28_ExitCodes ==
    dpc = "Exited" =>
        /\ poolState = "exhausted" => exitCode = 1
        /\ (dlog.killed /\ killResult # "true") => exitCode = 1
        /\ (poolState = "ok" /\ dflag = "start" /\ dlog.portInUse) => exitCode = 0
        /\ (poolState = "ok" /\ dflag = "stop"
                /\ (~dlog.portInUse \/ killResult = "true")) => exitCode = 0

\* a forced restart has ended with 1 after killProcessesOnPort returned false
C28_Witness ==
    /\ dpc = "Exited"
    /\ dflag = "force"
    /\ dlog.killed
    /\ killResult = "false"
    /\ exitCode = 1

(***************************************************************************)
(* Mutual exclusion of the start sequence.                                 *)
(***************************************************************************)
\* between a successful acquireLock and the finally block
InStartSequence(i) == pc[i] \in {"Spawn", "WritePid", "Health", "Release"}

\* C31: an acquireLock call succeeds exactly when the lock file is absent and
\* then one invocation alone gets the lock, an invocation in its start
\* sequence is the holder of the lock (so at most one is), and every spawn
\* is made by the holder of the lock.
C31_MutualExclusion ==
    [][/\ \A i \in Invokers : InStartSequence(i)' => lockFile' = i
       /\ \A i \in Invokers :
             (pc[i] \in {"Lock1", "Lock2"} /\ pc'[i] # pc[i]) =>
                 (pc'[i] = "Spawn" <=> lockFile = NoLock)
       /\ (lockFile = NoLock /\ lockFile' # NoLock) =>
             Cardinality({i \in Invokers : pc[i] # "Spawn" /\ pc'[i] = "Spawn"}) = 1
       /\ \A i \in Invokers : inngest'[i] # inngest[i] => lockFile = i]_vars

\* one invocation has the lock and is about to spawn, another one has called
\* acquireLock and failed
C31_Witness ==
    \E i, j \in Invokers :
        /\ i # j
        /\ lockFile = i
        /\ pc[i] = "Spawn"
        /\ trail[j].lockTried
        /\ trail[j].acquired = "no"

(***************************************************************************)
(* Validity of a returned assignment.                                      *)
(***************************************************************************)
\* C32: whenever resolveAllPorts returns an assignment, it has exactly one
\* port for every listed worktree and for nothing else, every port is a
\* member of the pool and no two worktrees share a port, whatever the sizes
\* of the pool and of the list.
C32_ReturnedMapIsValid ==
    IsMap(result) =>
        /\ DOMAIN result.assignments = Range(worktrees)
        /\ \A w \in Range(worktrees) : result.assignments[w] \in Range(ports)
        /\ Cardinality({result.assignments[w] : w \in Range(worktrees)})
              = Len(worktrees)

\* as many worktrees as the pool has ports were resolved, one of them by a
\* retry after a collision
C32_Witness ==
    /\ IsMap(result)
    /\ Len(worktrees) = Len(ports)
    /\ Len(worktrees) >= 2
    /\ RetriedSome

C34_SuccessIsVerifiedRelease ==
    [][(killResult' = "true" /\ killResult # "true") =>
          /\ kpc \in {"DoubleCheck", "WaitProbe", "LastProbe"}
          /\ ~isKillPortInUse]_vars

\* a kill that signalled a process and returned true after a probe found the
\* port free
C34_Witness ==
    /\ kpc = "Done"
    /\ killResult = "true"
    /\ signalled # {}
    /\ ~isKillPortInUse

(***************************************************************************)
(* The cached port of the script.                                          *)
(***************************************************************************)
\* C35: a port that getAvailableDevPort or getWorktreeConfig takes from the
\* port file is returned only if it is available at the time of the call.
C35_CachedPortChecked ==
    /\ (/\ devPort.kind = "port"
        /\ devPort.env = <<>>
        /\ Truthy(readPortFromFile(devPort.fileBefore))
        /\ devPort.out = readPortFromFile(devPort.fileBefore))
           => devPort.out \notin devPort.busy
    /\ (wtConfig.kind = "config" /\ wtConfig.from = "file")
           => wtConfig.port \notin wtConfig.busy

(***************************************************************************)
(* One dev server per worktree.                                            *)
(***************************************************************************)
\* C39: a start that found the port in use and was not forced has signalled
\* no process, has not called killProcessesOnPort or ensureInngestServer and
\* has launched no child; a forced start that found the port in use has
\* launched the child only if killProcessesOnPort returned true; and a child
\* was launched only after ensureInngestServer returned.
C39_OneDevServer ==
    /\ (dflag = "start" /\ dlog.portInUse) =>
          /\ kpc = "Idle"
          /\ signalled = {}
          /\ ~dlog.ensured
          /\ ~dlog.launched
    /\ (dflag = "force" /\ dlog.portInUse /\ (dlog.ensured \/ dlog.launched)) =>
          (dlog.killed /\ killResult = "true")
    /\ dlog.launched => dlog.ensured
    /\ dpc \in {"Launch", "Serving"} => dlog.ensured

\* a forced start has launched the child after a successful kill
C39_Witness ==
    /\ dflag = "force"
    /\ dlog.portInUse
    /\ killResult = "true"
    /\ signalled # {}
    /\ dlog.ensured
    /\ dlog.launched

(***************************************************************************)
(* Progress of an invocation that runs alone.                              *)
(***************************************************************************)
\* C37: an invocation that was called while no shared service ran, its port
\* was free and no other invocation was in progress, earlier invocations
\* having returned or having been terminated at any step, has spawned the
\* service when it returns.
C37_EnsureSpawns ==
    \A i \in Invokers : pc[i] = "Done" => inngest[i] # NoPid

(***************************************************************************)
(* The PID file when nothing is in progress.                               *)
(***************************************************************************)
\* no invocation and no command is in progress
Quiescent ==
    /\ \A i \in Invokers : AtEnd(i)
    /\ mpc = "Done"

\* C38: whenever no ensureInngestServer invocation and no stop command is in
\* progress and a service process that the manager spawned is live, the PID
\* file exists and names a live process.
C38_PidFileConsistent ==
    (Quiescent /\ procs # {}) => pidFile \in procs

(***************************************************************************)
(* The worktree list cache.                                                *)
(***************************************************************************)
\* what every call does: a call that does not run git returns the list the
\* cache held, and a call whose git run fails returns the empty list and
\* leaves the cache as it was
CacheCallsBehave ==
    /\ ~wtCall.queried => wtCall.out = wtCall.cachedList
    /\ wtCall.failed => (wtCall.out = <<>> /\ wtCall.cacheKept)

\* C36 as stated: a call returns the cached list without running git exactly
\* when a list was cached for its directory less than 5 seconds earlier and
\* the cache was not cleared since; a failed query returns the empty list and
\* does not overwrite the cache.
C36_CacheExactly ==
    wtCall.kind = "call" =>
        /\ ~wtCall.queried <=> wtCall.recent
        /\ CacheCallsBehave

\* C36 amended: a call returns the cached list without running git exactly
\* when the list cached last was cached for its directory, less than 5
\* seconds earlier, and the cache was not cleared since; a failed query
\* returns the empty list and does not overwrite the cache.
C36_SingleEntryCache ==
    wtCall.kind = "call" =>
        /\ ~wtCall.queried <=> (wtCall.recent /\ wtCall.latest)
        /\ CacheCallsBehave

\* a call answered from the cache half a TTL after the list was cached, with
\* a list the repository no longer has
C36_Witness ==
    /\ wtCall.kind = "call"
    /\ ~wtCall.queried
    /\ wtCall.recent
    /\ wtCall.latest
    /\ now - history.at[wtCall.cwd] = TickMs
    /\ wtCall.out # wtCall.listed

====
